---- MODULE Spec2Model ----
(***************************************************************************)
(* YAPP file-transfer engine (core/yapp_handler.py, class YappHandler).    *)
(*                                                                         *)
(* The handler's fields are the variables; every method is an operator on  *)
(* a record `h` holding those fields, translated statement by statement,   *)
(* and every public entry point (start_send, start_receive, process_data,  *)
(* cancel, reset_to_idle, the Timer callback _on_timeout) is one action    *)
(* executed atomically, as the code runs it under self._lock.              *)
(*                                                                         *)
(* Bytes are integers 0..255, strings are sequences of character codes,    *)
(* packets handed to send_raw are kept as their wire bytes.                *)
(***************************************************************************)
EXTENDS Integers, Sequences, FiniteSets, TLC

VARIABLES
    state,              \* self.state (YappState)
    rx_buf,             \* self._rx_buf
    file_handle,        \* self._file_handle: "none", "rb" or "wb"
    file_path,          \* the file behind the handle
    file_pos,           \* read/write position of the handle
    fed,                \* with the recorder on: the bytes process_data was given
                        \* in this session
    written,            \* with the recorder on: the bytes written to the file
                        \* being received
    filename,           \* self._filename
    file_size,          \* self._file_size
    bytes_transferred,  \* self._bytes_transferred
    timer,              \* self._timer: "none", "armed", or "fired" (a Timer
                        \* object whose interval has already elapsed)
    si_retries,         \* self._si_retries
    sent,               \* packets the last call gave to send_raw, in order
    connected,          \* SerialHandler.is_connected, which send_bytes returns
    tx_failed,          \* whether a send_raw call of this session returned False
    trace,              \* with the recorder on: all packets given to send_raw
                        \* since the session started
    recording,          \* whether the recorder is on
    finished,           \* on_finished(success, message) calls of this session
    pending,            \* expired Timer threads waiting to run _on_timeout
    wire,               \* bytes of the peer still in flight on the transport
    ret,                \* what the last public call returned: <<>> for None, or the
                        \* (bool, message) pair of start_send / start_receive
    lock,               \* self._lock: "free" or the thread that holds it
    peer,               \* with two engines connected: the engine at the other end
                        \* and the bytes in flight to it
    threads             \* per thread: where it is in a call of the engine (outside,
                        \* inside the with block, past rx_buf.extend), the call,
                        \* and the engine as it found it on entering

vars == <<state, rx_buf, file_handle, file_path, file_pos, written, fed, filename, file_size,
          bytes_transferred, timer, si_retries, sent, connected, tx_failed, trace, recording,
          finished, pending, wire, ret, lock, threads, peer>>

(***************************************************************************)
(* Protocol constants                                                      *)
(***************************************************************************)
SOH == 1
STX == 2
ETX == 3
EOT == 4
ENQ == 5
ACK == 6
DLE == 16
NAK == 21
CAN == 24

MAX_DATA_LEN == 250
MAX_SI_RETRIES == 5

YappState == {"IDLE", "S_INIT", "S_HEADER", "S_DATA", "S_EOF", "S_EOT",
              "R_WAIT", "R_HEADER", "R_DATA", "DONE", "ERROR", "CW_WAIT"}

(***************************************************************************)
(* Bounds of the exploration                                               *)
(***************************************************************************)
MaxFinished == 2    \* process_data is no longer fed once on_finished was called
                    \* this many times
MaxPending == 1     \* expired timer callbacks that may wait for the lock at once
MaxBuf == 6         \* the transport delivers no byte that would grow rx_buf past
                    \* this, nor any while rx_buf awaits a packet longer than this
MaxRecv == 3        \* ... and none once the file being received holds this many bytes
MaxLoop == 5        \* with the decode loop taken turn by turn: process_data is given no
                    \* bytes that would grow rx_buf past this, nor any once the file
                    \* being received holds MaxRecv bytes or on_finished was called
                    \* MaxFinished times

(***************************************************************************)
(* Strings and bytes                                                       *)
(***************************************************************************)
Min(a, b) == IF a < b THEN a ELSE b

Drop(s, n) == SubSeq(s, n + 1, Len(s))

\* the concatenation of a sequence of packets
RECURSIVE Flatten(_)
Flatten(pkts) == IF pkts = <<>> THEN <<>> ELSE pkts[1] \o Flatten(Drop(pkts, 1))

\* str.encode('ascii', errors='replace'): a non-ASCII character becomes '?'
EncodeAscii(s) == [i \in 1..Len(s) |-> IF s[i] < 128 THEN s[i] ELSE 63]

\* bytes.decode('ascii', errors='replace'): a non-ASCII byte becomes U+FFFD
DecodeAscii(b) == [i \in 1..Len(b) |-> IF b[i] < 128 THEN b[i] ELSE 65533]

\* str(n) for n >= 0, as character codes
RECURSIVE StrOfNat(_)
StrOfNat(n) == IF n < 10 THEN <<48 + n>>
               ELSE Append(StrOfNat(n \div 10), 48 + (n % 10))

IsDigit(c) == c >= 48 /\ c <= 57

RECURSIVE DigitsValue(_)
DigitsValue(s) == IF s = <<>> THEN 0
                  ELSE 10 * DigitsValue(SubSeq(s, 1, Len(s) - 1)) + (s[Len(s)] - 48)

\* int(s) of the try block in _parse_header: the value of a decimal literal
\* with an optional sign, ok = FALSE standing for ValueError.  (White space
\* and underscores, which int() also accepts, are not in the bytes fed here.)
IntOfStr(s) ==
    LET body == IF s # <<>> /\ s[1] \in {43, 45} THEN Drop(s, 1) ELSE s
    IN  IF body = <<>> \/ \E i \in 1..Len(body) : ~IsDigit(body[i]) THEN [ok |-> FALSE, val |-> 0]
        ELSE [ok |-> TRUE,
              val |-> IF s[1] = 45 THEN 0 - DigitsValue(body) ELSE DigitsValue(body)]

\* bytes.split(b'\x00')
RECURSIVE SplitNul(_)
SplitNul(b) ==
    IF \A i \in 1..Len(b) : b[i] # 0 THEN <<b>>
    ELSE LET k == CHOOSE i \in 1..Len(b) : b[i] = 0 /\ \A j \in 1..(i - 1) : b[j] # 0
         IN  <<SubSeq(b, 1, k - 1)>> \o SplitNul(Drop(b, k))

\* Fixed texts of the code, as character codes
TxtCancelledByUser == <<67,97,110,99,101,108,108,101,100,32,98,121,32,117,115,101,114>>
TxtTimeout == <<84,105,109,101,111,117,116>>
TxtUnexpectedData == <<85,110,101,120,112,101,99,116,101,100,32,100,97,116,97,32,100,117,114,105,110,103,32,115,101,110,100>>
TxtInvalidFilename == <<73,110,118,97,108,105,100,32,102,105,108,101,110,97,109,101>>
TxtCannotCreate == <<67,97,110,110,111,116,32,99,114,101,97,116,101,32,102,105,108,101,58,32>>
TxtWriteError == <<87,114,105,116,101,32,101,114,114,111,114,58,32>>
\* str(e) of a storage exception ("EIO")
TxtOSError == <<69,73,79>>

\* str(e) of the exception of a failed open(filepath, 'wb'), which names the
\* path: short, or (io = "fail_long") that of a long path
OpenErrorText(io) == IF io = "fail_long" THEN [i \in 1..240 |-> 97] ELSE TxtOSError

(***************************************************************************)
(* The host file system seen by start_send                                 *)
(***************************************************************************)
SendPaths == {"d/missing", "d/locked", "d/e.bin", "d/a.txt", "d/f.bin",
              "d/big.bin", "d/t.bin"}

\* os.path.exists(filepath)
PathExists(filepath) == filepath # "d/missing"

\* open(filepath, 'rb') succeeds
PathOpens(filepath) == filepath # "d/locked"

\* os.path.basename(filepath), as character codes
BaseName(filepath) ==
    CASE filepath = "d/a.txt" -> <<97, 46, 116, 120, 116>>
      [] filepath = "d/big.bin" -> <<98, 105, 103, 46, 98, 105, 110>>
      [] filepath = "d/f.bin" -> <<102, 46, 98, 105, 110>>
      [] filepath = "d/t.bin" -> <<116, 46, 98, 105, 110>>
      [] filepath = "d/e.bin" -> <<101, 46, 98, 105, 110>>
      [] filepath = "d/locked" -> <<108, 111, 99, 107, 101, 100>>
      [] filepath = "d/missing" -> <<109, 105, 115, 115, 105, 110, 103>>
      [] filepath = "d/año.txt" -> <<97, 241, 111, 46, 116, 120, 116>>

\* os.path.getsize(filepath)
GetSize(filepath) ==
    CASE filepath = "d/a.txt" -> 10
      [] filepath = "d/año.txt" -> 3
      [] filepath = "d/f.bin" -> MAX_DATA_LEN
      [] filepath = "d/big.bin" -> MAX_DATA_LEN + 1
      [] filepath = "d/t.bin" -> 2 * MAX_DATA_LEN
      [] OTHER -> 0

\* the bytes of the file
FileData(filepath) == [i \in 1..GetSize(filepath) |-> 48 + (i % 10)]

(***************************************************************************)
(* The handler as a record.  Besides the fields and the session logs, a    *)
(* record carries what one call produces: `sent`, the packets it gave to   *)
(* send_raw, `events`, the on_event calls it made, and `raised`, whether   *)
(* it left through an uncaught exception.                                  *)
(***************************************************************************)
Self == [state |-> state, rx_buf |-> rx_buf, file_handle |-> file_handle,
         file_path |-> file_path, file_pos |-> file_pos, written |-> written, fed |-> fed,
         filename |-> filename,
         file_size |-> file_size, bytes_transferred |-> bytes_transferred,
         timer |-> timer, si_retries |-> si_retries, raised |-> FALSE,
         sent |-> <<>>, connected |-> connected, tx_failed |-> tx_failed,
         trace |-> trace, recording |-> recording,
         finished |-> finished, events |-> <<>>]

\* __init__
NewHandler == [state |-> "IDLE", rx_buf |-> <<>>, file_handle |-> "none",
               file_path |-> "", file_pos |-> 0, written |-> <<>>, fed |-> <<>>,
               filename |-> <<>>,
               file_size |-> 0, bytes_transferred |-> 0,
               timer |-> "none", si_retries |-> 0, raised |-> FALSE,
               sent |-> <<>>, connected |-> TRUE, tx_failed |-> FALSE,
               trace |-> <<>>, recording |-> FALSE,
               finished |-> <<>>, events |-> <<>>]

(***************************************************************************)
(* Helpers                                                                 *)
(***************************************************************************)
\* SerialHandler.send_bytes, the send_raw of the application: its result
send_bytes(h, data) == h.connected

\* _send_packet drops what send_raw returns.
_send_packet(h, data) ==
    LET ok == send_bytes(h, data)
    IN  [h EXCEPT !.sent = Append(@, data),
                  !.tx_failed = @ \/ ~ok,
                  !.trace = IF h.recording THEN Append(@, data) ELSE @]

_log(h, event_type, message) == [h EXCEPT !.events = Append(@, <<event_type, message>>)]

\* on_progress only reads the counters
_update_progress(h) == h

\* Timer.cancel() stops a Timer that has not expired; an expired one is
\* already on its way into _on_timeout and is only forgotten.
_cancel_timer(h) == IF h.timer # "none" THEN [h EXCEPT !.timer = "none"] ELSE h

_start_timer(h) == [_cancel_timer(h) EXCEPT !.timer = "armed"]

\* _finish that leaves the file handle as it is
_finish_keeps_file(h, success, message) ==
    LET h1 == _cancel_timer(h)
        h3 == [h1 EXCEPT !.state = IF success THEN "DONE" ELSE "ERROR"]
        h4 == _log(h3, IF success THEN "SUCCESS" ELSE "ERROR", message)
    IN  [h4 EXCEPT !.finished = Append(@, [success |-> success, message |-> message])]

_finish(h, success, message) ==
    LET h1 == _cancel_timer(h)
        h2 == IF h1.file_handle # "none" THEN [h1 EXCEPT !.file_handle = "none"] ELSE h1
        h3 == [h2 EXCEPT !.state = IF success THEN "DONE" ELSE "ERROR"]
        h4 == _log(h3, IF success THEN "SUCCESS" ELSE "ERROR", message)
    IN  [h4 EXCEPT !.finished = Append(@, [success |-> success, message |-> message])]

_reset(h) ==
    LET h1 == _cancel_timer(h)
    IN  [h1 EXCEPT !.file_handle = "none", !.file_path = "", !.file_pos = 0,
                   !.filename = <<>>, !.file_size = 0,
                   !.bytes_transferred = 0, !.rx_buf = <<>>, !.si_retries = 0,
                   !.state = "IDLE"]

(***************************************************************************)
(* Protocol packet builders                                                *)
(***************************************************************************)
_send_si(h) == _start_timer(_log(_send_packet(h, <<ENQ, 1>>), "SENT", <<"SI (Send Init)">>))

_send_header(h) ==
    LET payload == EncodeAscii(h.filename) \o <<0>> \o StrOfNat(h.file_size) \o <<0>>
        pkt == <<SOH, Len(payload)>> \o payload
        h1 == _log(_send_packet(h, pkt), "SENT", <<"HD (Header)", h.filename, h.file_size>>)
    IN  _start_timer([h1 EXCEPT !.state = "S_HEADER"])

\* _send_data_block that reads up to 256 bytes
_send_data_block_256(h, io) ==
    IF h.file_handle = "none" THEN [h |-> h, more |-> FALSE]
    ELSE IF io # "ok" THEN [h |-> [h EXCEPT !.raised = TRUE], more |-> FALSE]
    ELSE LET data == SubSeq(FileData(h.file_path), h.file_pos + 1,
                            Min(h.file_pos + 256, Len(FileData(h.file_path))))
             length == Len(data)
         IN  IF data = <<>> THEN [h |-> h, more |-> FALSE]
             ELSE LET len_byte == IF length < 256 THEN length ELSE 0
                      h1 == [h EXCEPT !.file_pos = @ + length]
                      h2 == _send_packet(h1, <<STX, len_byte>> \o data)
                      h3 == [h2 EXCEPT !.bytes_transferred = @ + length]
                  IN  [h |-> _update_progress(h3), more |-> TRUE]

\* _send_data_block that moves the file position one byte too far
_send_data_block_gap(h, io) ==
    IF h.file_handle = "none" THEN [h |-> h, more |-> FALSE]
    ELSE IF io # "ok" THEN [h |-> [h EXCEPT !.raised = TRUE], more |-> FALSE]
    ELSE LET data == SubSeq(FileData(h.file_path), h.file_pos + 1,
                            Min(h.file_pos + MAX_DATA_LEN, Len(FileData(h.file_path))))
             length == Len(data)
         IN  IF data = <<>> THEN [h |-> h, more |-> FALSE]
             ELSE LET len_byte == IF length < 256 THEN length ELSE 0
                      h1 == [h EXCEPT !.file_pos = @ + length + 1]
                      h2 == _send_packet(h1, <<STX, len_byte>> \o data)
                      h3 == [h2 EXCEPT !.bytes_transferred = @ + length]
                  IN  [h |-> _update_progress(h3), more |-> TRUE]

\* Returns [h, more]; io other than "ok" makes the read raise.
_send_data_block(h, io) ==
    IF h.file_handle = "none" THEN [h |-> h, more |-> FALSE]
    ELSE IF io # "ok" THEN [h |-> [h EXCEPT !.raised = TRUE], more |-> FALSE]
    ELSE LET data == SubSeq(FileData(h.file_path), h.file_pos + 1,
                            Min(h.file_pos + MAX_DATA_LEN, Len(FileData(h.file_path))))
             length == Len(data)
         IN  IF data = <<>> THEN [h |-> h, more |-> FALSE]
             ELSE LET len_byte == IF length < 256 THEN length ELSE 0
                      h1 == [h EXCEPT !.file_pos = @ + length]
                      h2 == _send_packet(h1, <<STX, len_byte>> \o data)
                      h3 == [h2 EXCEPT !.bytes_transferred = @ + length]
                  IN  [h |-> _update_progress(h3), more |-> TRUE]

_send_eof(h) ==
    LET h1 == _log(_send_packet(h, <<ETX, 1>>), "SENT", <<"EF (End of File)">>)
    IN  _start_timer([h1 EXCEPT !.state = "S_EOF"])

_send_eot(h) ==
    LET h1 == _log(_send_packet(h, <<EOT, 1>>), "SENT", <<"ET (End of Transmission)">>)
    IN  _start_timer([h1 EXCEPT !.state = "S_EOT"])

_send_rr(h) == _log(_send_packet(h, <<ACK, 1>>), "SENT", <<"RR (Receive Ready)">>)

_send_rf(h) == _log(_send_packet(h, <<ACK, 2>>), "SENT", <<"RF (Receive File)">>)

\* _send_af with the subtype of AckEot
_send_af_as_at(h) == _log(_send_packet(h, <<ACK, 4>>), "SENT", <<"AF (Ack End of File)">>)

_send_af(h) == _log(_send_packet(h, <<ACK, 3>>), "SENT", <<"AF (Ack End of File)">>)

_send_at(h) == _log(_send_packet(h, <<ACK, 4>>), "SENT", <<"AT (Ack End of Transmission)">>)

\* bytes([NAK, len(payload)]) raises ValueError for a payload over 255 bytes.
_send_nr(h, reason) ==
    LET payload == EncodeAscii(reason)
    IN  IF Len(payload) > 255 THEN [h EXCEPT !.raised = TRUE] ELSE
        _log(_send_packet(h, <<NAK, Len(payload)>> \o payload), "SENT", <<"NR (Not Ready)", reason>>)

\* bytes([CAN, len(payload)]) raises ValueError for a payload over 255 bytes.
_send_cancel(h, reason) ==
    LET payload == EncodeAscii(reason)
    IN  IF Len(payload) > 255 THEN [h EXCEPT !.raised = TRUE] ELSE
        _log(_send_packet(h, <<CAN, Len(payload)>> \o payload), "SENT", <<"CN (Cancel)", reason>>)

_send_ca(h) == _log(_send_packet(h, <<ACK, 5>>), "SENT", <<"CA (Cancel Ack)">>)

(***************************************************************************)
(* Data send loop                                                          *)
(***************************************************************************)
\* _send_data_loop with `if` in place of `while`: one block, then Eof
_send_data_loop_once(h, io) ==
    IF h.state # "S_DATA" THEN h
    ELSE LET r == _send_data_block(h, io)
         IN  IF r.h.raised THEN r.h
             ELSE _send_eof(IF r.h.file_handle # "none"
                            THEN [r.h EXCEPT !.file_handle = "none"] ELSE r.h)

\* _send_data_loop that returns after a block, leaving the rest for later
_send_data_loop_yield(h, io) ==
    IF h.state # "S_DATA" THEN h
    ELSE LET r == _send_data_block(h, io)
         IN  IF r.h.raised THEN r.h
             ELSE IF ~r.more
                  THEN _send_eof(IF r.h.file_handle # "none"
                                 THEN [r.h EXCEPT !.file_handle = "none"] ELSE r.h)
                  ELSE r.h

\* r is what one _send_data_block call returned, taken once
RECURSIVE _send_data_loop(_, _)
_send_data_loop(h, io) ==
    IF h.state # "S_DATA" THEN h
    ELSE CHOOSE out \in {
             IF r.h.raised THEN r.h
             ELSE IF ~r.more
                  THEN _send_eof(IF r.h.file_handle # "none"
                                 THEN [r.h EXCEPT !.file_handle = "none"] ELSE r.h)
                  ELSE _send_data_loop(r.h, io) :
             r \in {_send_data_block(h, io)} } : TRUE

(***************************************************************************)
(* Buffer processing / state machine.  The _process_* methods return the   *)
(* handler and whether bytes were consumed.                                *)
(***************************************************************************)
\* _process_sender_response that takes AckEot in any of its states
_process_sender_response_any_at(h, first, second, io) ==
    LET h0 == _cancel_timer(h)
    IN  IF first = ACK THEN
            LET h1 == [h0 EXCEPT !.rx_buf = Drop(@, 2)]
            IN  CASE second = 1 ->
                       LET h2 == _log(h1, "RECEIVED", <<"RR (Receive Ready)">>)
                       IN  [h |-> IF h2.state = "S_INIT" THEN _send_header(h2) ELSE h2,
                            consumed |-> TRUE]
                  [] second = 2 ->
                       LET h2 == _log(h1, "RECEIVED", <<"RF (Receive File)">>)
                       IN  [h |-> IF h2.state \in {"S_INIT", "S_HEADER"}
                                  THEN _send_data_loop(
                                           _log([h2 EXCEPT !.state = "S_DATA"],
                                                "INFO", <<"Sending data...">>), io)
                                  ELSE h2,
                            consumed |-> TRUE]
                  [] second = 3 ->
                       LET h2 == _log(h1, "RECEIVED", <<"AF (Ack End of File)">>)
                       IN  [h |-> IF h2.state = "S_EOF" THEN _send_eot(h2) ELSE h2,
                            consumed |-> TRUE]
                  [] second = 4 ->
                       LET h2 == _log(h1, "RECEIVED", <<"AT (Ack End of Transmission)">>)
                       IN  [h |-> _finish(h2, TRUE, <<"File sent successfully: ", h2.filename>>),
                            consumed |-> TRUE]
                  [] second = 5 ->
                       LET h2 == _log(h1, "RECEIVED", <<"CA (Cancel Ack)">>)
                       IN  [h |-> _finish(h2, FALSE, <<"Transfer cancelled">>),
                            consumed |-> TRUE]
                  [] second = ACK ->
                       LET h2 == _log(h1, "RECEIVED", <<"RT (YappC requested - not supported, using standard)">>)
                       IN  [h |-> IF h2.state \in {"S_INIT", "S_HEADER"}
                                  THEN _send_data_loop([h2 EXCEPT !.state = "S_DATA"], io)
                                  ELSE h2,
                            consumed |-> TRUE]
                  [] OTHER -> [h |-> h1, consumed |-> TRUE]
        ELSE IF first = NAK THEN
            LET length == second
            IN  IF Len(h0.rx_buf) < 2 + length THEN [h |-> h0, consumed |-> FALSE]
                ELSE LET payload == SubSeq(h0.rx_buf, 3, 2 + length)
                         h1 == [h0 EXCEPT !.rx_buf = Drop(@, 2 + length)]
                     IN  IF payload # <<>> /\ payload[1] = 82 THEN
                             LET h2 == _log(h1, "RECEIVED", <<"RE (Resume) - not supported, restarting">>)
                             IN  [h |-> IF h2.state = "S_HEADER"
                                        THEN IF h2.file_handle = "none"
                                             THEN [h2 EXCEPT !.raised = TRUE]
                                             ELSE _send_header([h2 EXCEPT !.file_pos = 0,
                                                                          !.bytes_transferred = 0])
                                        ELSE h2,
                                  consumed |-> TRUE]
                         ELSE
                             LET reason == DecodeAscii(payload)
                                 h2 == _log(h1, "RECEIVED", <<"NR (Not Ready)", reason>>)
                             IN  [h |-> _finish(h2, FALSE, <<"Remote not ready: ", reason>>),
                                  consumed |-> TRUE]
        ELSE [h |-> [h0 EXCEPT !.rx_buf = Drop(@, 1)], consumed |-> TRUE]

\* _process_sender_response that resumes at the offset the Resume request names
_process_sender_response_resume(h, first, second, io) ==
    LET h0 == _cancel_timer(h)
    IN  IF first = ACK THEN
            LET h1 == [h0 EXCEPT !.rx_buf = Drop(@, 2)]
            IN  CASE second = 1 ->
                       LET h2 == _log(h1, "RECEIVED", <<"RR (Receive Ready)">>)
                       IN  [h |-> IF h2.state = "S_INIT" THEN _send_header(h2) ELSE h2,
                            consumed |-> TRUE]
                  [] second = 2 ->
                       LET h2 == _log(h1, "RECEIVED", <<"RF (Receive File)">>)
                       IN  [h |-> IF h2.state \in {"S_INIT", "S_HEADER"}
                                  THEN _send_data_loop(
                                           _log([h2 EXCEPT !.state = "S_DATA"],
                                                "INFO", <<"Sending data...">>), io)
                                  ELSE h2,
                            consumed |-> TRUE]
                  [] second = 3 ->
                       LET h2 == _log(h1, "RECEIVED", <<"AF (Ack End of File)">>)
                       IN  [h |-> IF h2.state = "S_EOF" THEN _send_eot(h2) ELSE h2,
                            consumed |-> TRUE]
                  [] second = 4 ->
                       LET h2 == _log(h1, "RECEIVED", <<"AT (Ack End of Transmission)">>)
                       IN  [h |-> IF h2.state = "S_EOT"
                                  THEN _finish(h2, TRUE, <<"File sent successfully: ", h2.filename>>)
                                  ELSE h2,
                            consumed |-> TRUE]
                  [] second = 5 ->
                       LET h2 == _log(h1, "RECEIVED", <<"CA (Cancel Ack)">>)
                       IN  [h |-> _finish(h2, FALSE, <<"Transfer cancelled">>),
                            consumed |-> TRUE]
                  [] second = ACK ->
                       LET h2 == _log(h1, "RECEIVED", <<"RT (YappC requested - not supported, using standard)">>)
                       IN  [h |-> IF h2.state \in {"S_INIT", "S_HEADER"}
                                  THEN _send_data_loop([h2 EXCEPT !.state = "S_DATA"], io)
                                  ELSE h2,
                            consumed |-> TRUE]
                  [] OTHER -> [h |-> h1, consumed |-> TRUE]
        ELSE IF first = NAK THEN
            LET length == second
            IN  IF Len(h0.rx_buf) < 2 + length THEN [h |-> h0, consumed |-> FALSE]
                ELSE LET payload == SubSeq(h0.rx_buf, 3, 2 + length)
                         h1 == [h0 EXCEPT !.rx_buf = Drop(@, 2 + length)]
                     IN  IF payload # <<>> /\ payload[1] = 82 THEN
                             LET h2 == _log(h1, "RECEIVED", <<"RE (Resume) - not supported, restarting">>)
                             IN  [h |-> IF h2.state = "S_HEADER"
                                        THEN IF h2.file_handle = "none"
                                             THEN [h2 EXCEPT !.raised = TRUE]
                                             ELSE LET parts == SplitNul(payload)
                                                      at == IF Len(parts) >= 2
                                                            THEN IntOfStr(parts[2]).val ELSE 0
                                                  IN  _send_header([h2 EXCEPT !.file_pos = at,
                                                                          !.bytes_transferred = at])
                                        ELSE h2,
                                  consumed |-> TRUE]
                         ELSE
                             LET reason == DecodeAscii(payload)
                                 h2 == _log(h1, "RECEIVED", <<"NR (Not Ready)", reason>>)
                             IN  [h |-> _finish(h2, FALSE, <<"Remote not ready: ", reason>>),
                                  consumed |-> TRUE]
        ELSE [h |-> [h0 EXCEPT !.rx_buf = Drop(@, 1)], consumed |-> TRUE]

_process_sender_response(h, first, second, io) ==
    LET h0 == _cancel_timer(h)
    IN  IF first = ACK THEN
            LET h1 == [h0 EXCEPT !.rx_buf = Drop(@, 2)]
            IN  CASE second = 1 ->
                       LET h2 == _log(h1, "RECEIVED", <<"RR (Receive Ready)">>)
                       IN  [h |-> IF h2.state = "S_INIT" THEN _send_header(h2) ELSE h2,
                            consumed |-> TRUE]
                  [] second = 2 ->
                       LET h2 == _log(h1, "RECEIVED", <<"RF (Receive File)">>)
                       IN  [h |-> IF h2.state \in {"S_INIT", "S_HEADER"}
                                  THEN _send_data_loop(
                                           _log([h2 EXCEPT !.state = "S_DATA"],
                                                "INFO", <<"Sending data...">>), io)
                                  ELSE h2,
                            consumed |-> TRUE]
                  [] second = 3 ->
                       LET h2 == _log(h1, "RECEIVED", <<"AF (Ack End of File)">>)
                       IN  [h |-> IF h2.state = "S_EOF" THEN _send_eot(h2) ELSE h2,
                            consumed |-> TRUE]
                  [] second = 4 ->
                       LET h2 == _log(h1, "RECEIVED", <<"AT (Ack End of Transmission)">>)
                       IN  [h |-> IF h2.state = "S_EOT"
                                  THEN _finish(h2, TRUE, <<"File sent successfully: ", h2.filename>>)
                                  ELSE h2,
                            consumed |-> TRUE]
                  [] second = 5 ->
                       LET h2 == _log(h1, "RECEIVED", <<"CA (Cancel Ack)">>)
                       IN  [h |-> _finish(h2, FALSE, <<"Transfer cancelled">>),
                            consumed |-> TRUE]
                  [] second = ACK ->
                       LET h2 == _log(h1, "RECEIVED", <<"RT (YappC requested - not supported, using standard)">>)
                       IN  [h |-> IF h2.state \in {"S_INIT", "S_HEADER"}
                                  THEN _send_data_loop([h2 EXCEPT !.state = "S_DATA"], io)
                                  ELSE h2,
                            consumed |-> TRUE]
                  [] OTHER -> [h |-> h1, consumed |-> TRUE]
        ELSE IF first = NAK THEN
            LET length == second
            IN  IF Len(h0.rx_buf) < 2 + length THEN [h |-> h0, consumed |-> FALSE]
                ELSE LET payload == SubSeq(h0.rx_buf, 3, 2 + length)
                         h1 == [h0 EXCEPT !.rx_buf = Drop(@, 2 + length)]
                     IN  IF payload # <<>> /\ payload[1] = 82 THEN
                             LET h2 == _log(h1, "RECEIVED", <<"RE (Resume) - not supported, restarting">>)
                             IN  [h |-> IF h2.state = "S_HEADER"
                                        THEN IF h2.file_handle = "none"
                                             THEN [h2 EXCEPT !.raised = TRUE]
                                             ELSE _send_header([h2 EXCEPT !.file_pos = 0,
                                                                          !.bytes_transferred = 0])
                                        ELSE h2,
                                  consumed |-> TRUE]
                         ELSE
                             LET reason == DecodeAscii(payload)
                                 h2 == _log(h1, "RECEIVED", <<"NR (Not Ready)", reason>>)
                             IN  [h |-> _finish(h2, FALSE, <<"Remote not ready: ", reason>>),
                                  consumed |-> TRUE]
        ELSE [h |-> [h0 EXCEPT !.rx_buf = Drop(@, 1)], consumed |-> TRUE]

\* io other than "ok" makes open(filepath, 'wb') raise; an exception of
\* _send_nr inside the except block leaves _parse_header.
_parse_header(h, payload, io) ==
    \* parts = payload.split(b'\x00'), taken once
    CHOOSE out \in {
    LET size == IntOfStr(DecodeAscii(parts[2]))
        h1 == IF Len(parts) >= 2
              THEN [h EXCEPT !.filename = DecodeAscii(parts[1]),
                             !.file_size = IF size.ok THEN size.val ELSE 0]
              ELSE h
        h2 == _log(h1, "RECEIVED", <<"HD (Header)", h1.filename, h1.file_size>>)
    IN  IF h2.filename = <<>>
        THEN _finish(_send_nr(h2, TxtInvalidFilename), FALSE, <<"Invalid filename in header">>)
        ELSE IF io # "ok"
        THEN LET h3 == _send_nr(h2, TxtCannotCreate \o OpenErrorText(io))
             IN  IF h3.raised THEN h3
                 ELSE _finish(h3, FALSE, <<"Cannot create file: ", OpenErrorText(io)>>)
        ELSE LET h3 == [h2 EXCEPT !.file_handle = "wb", !.file_path = "download",
                                  !.file_pos = 0, !.written = <<>>,
                                  !.bytes_transferred = 0]
                 h4 == _send_rf(h3)
             IN  _log([h4 EXCEPT !.state = "R_DATA"], "INFO", <<"Receiving", h4.filename>>)
    : parts \in {SplitNul(payload)} } : TRUE

\* _process_receiver_control that discards two bytes at an unexpected byte
_process_receiver_control_skip2(h, first, second, io) ==
    LET h0 == _cancel_timer(h)
    IN  IF first = ENQ /\ second = 1 THEN
            LET h1 == [h0 EXCEPT !.rx_buf = Drop(@, 2)]
                h2 == _send_rr(_log(h1, "RECEIVED", <<"SI (Send Init)">>))
            IN  [h |-> _start_timer([h2 EXCEPT !.state = "R_HEADER"]), consumed |-> TRUE]
        ELSE IF first = SOH THEN
            LET length == second
            IN  IF Len(h0.rx_buf) < 2 + length THEN [h |-> h0, consumed |-> FALSE]
                ELSE LET payload == SubSeq(h0.rx_buf, 3, 2 + length)
                         h1 == [h0 EXCEPT !.rx_buf = Drop(@, 2 + length)]
                     IN  [h |-> _parse_header(h1, payload, io), consumed |-> TRUE]
        ELSE IF first = EOT /\ second = 1 THEN
            LET h1 == [h0 EXCEPT !.rx_buf = Drop(@, 2)]
                h2 == _send_at(_log(h1, "RECEIVED", <<"ET (End of Transmission)">>))
            IN  [h |-> _finish(h2, TRUE, <<"Transfer complete (no files)">>), consumed |-> TRUE]
        ELSE IF first = ENQ /\ second = 1 THEN
            [h |-> _send_rr([h0 EXCEPT !.rx_buf = Drop(@, 2)]), consumed |-> TRUE]
        ELSE [h |-> [h0 EXCEPT !.rx_buf = Drop(@, 2)], consumed |-> TRUE]

_process_receiver_control(h, first, second, io) ==
    LET h0 == _cancel_timer(h)
    IN  IF first = ENQ /\ second = 1 THEN
            LET h1 == [h0 EXCEPT !.rx_buf = Drop(@, 2)]
                h2 == _send_rr(_log(h1, "RECEIVED", <<"SI (Send Init)">>))
            IN  [h |-> _start_timer([h2 EXCEPT !.state = "R_HEADER"]), consumed |-> TRUE]
        ELSE IF first = SOH THEN
            LET length == second
            IN  IF Len(h0.rx_buf) < 2 + length THEN [h |-> h0, consumed |-> FALSE]
                ELSE LET payload == SubSeq(h0.rx_buf, 3, 2 + length)
                         h1 == [h0 EXCEPT !.rx_buf = Drop(@, 2 + length)]
                     IN  [h |-> _parse_header(h1, payload, io), consumed |-> TRUE]
        ELSE IF first = EOT /\ second = 1 THEN
            LET h1 == [h0 EXCEPT !.rx_buf = Drop(@, 2)]
                h2 == _send_at(_log(h1, "RECEIVED", <<"ET (End of Transmission)">>))
            IN  [h |-> _finish(h2, TRUE, <<"Transfer complete (no files)">>), consumed |-> TRUE]
        ELSE IF first = ENQ /\ second = 1 THEN
            [h |-> _send_rr([h0 EXCEPT !.rx_buf = Drop(@, 2)]), consumed |-> TRUE]
        ELSE [h |-> [h0 EXCEPT !.rx_buf = Drop(@, 1)], consumed |-> TRUE]

\* _process_receiver_data for which length byte 0 means 255 bytes
_process_receiver_data_len0(h, first, second, io) ==
    IF first = STX THEN
        LET length == IF second # 0 THEN second ELSE 255
        IN  IF Len(h.rx_buf) < 2 + length THEN [h |-> h, consumed |-> FALSE]
            ELSE LET data == SubSeq(h.rx_buf, 3, 2 + length)
                     h1 == [h EXCEPT !.rx_buf = Drop(@, 2 + length)]
                 IN  [h |-> IF h1.file_handle = "none" THEN h1
                            ELSE IF io # "ok"
                            THEN _finish(_send_cancel(h1, TxtWriteError \o TxtOSError), FALSE,
                                         <<"File write error: ", TxtOSError>>)
                            ELSE _update_progress(
                                     [h1 EXCEPT !.written = IF h1.recording THEN @ \o data ELSE @,
                                                !.file_pos = @ + Len(data),
                                                !.bytes_transferred = @ + length]),
                      consumed |-> TRUE]
    ELSE IF first = ETX /\ second = 1 THEN
        LET h1 == _log([h EXCEPT !.rx_buf = Drop(@, 2)], "RECEIVED", <<"EF (End of File)">>)
            h2 == IF h1.file_handle # "none" THEN [h1 EXCEPT !.file_handle = "none"] ELSE h1
            h3 == _start_timer([_send_af(h2) EXCEPT !.state = "R_HEADER"])
        IN  [h |-> _log(h3, "SUCCESS", <<"File received", h3.filename, h3.bytes_transferred>>),
             consumed |-> TRUE]
    ELSE IF first = EOT /\ second = 1 THEN
        LET h1 == _log([h EXCEPT !.rx_buf = Drop(@, 2)], "RECEIVED", <<"ET (End of Transmission)">>)
            h2 == IF h1.file_handle # "none" THEN [h1 EXCEPT !.file_handle = "none"] ELSE h1
        IN  [h |-> _finish(_send_at(h2), TRUE, <<"Received", h2.filename, h2.bytes_transferred>>),
             consumed |-> TRUE]
    ELSE IF first = CAN THEN
        LET length == second
        IN  IF Len(h.rx_buf) < 2 + length THEN [h |-> h, consumed |-> FALSE]
            ELSE [h |-> _finish(_send_ca([h EXCEPT !.rx_buf = Drop(@, 2 + length)]),
                                FALSE, <<"Cancelled by remote">>),
                  consumed |-> TRUE]
    ELSE [h |-> [h EXCEPT !.rx_buf = Drop(@, 1)], consumed |-> TRUE]

\* _process_receiver_data that reports an unexpected byte consumed without
\* removing it
_process_receiver_data_stuck(h, first, second, io) ==
    IF first = STX THEN
        LET length == IF second # 0 THEN second ELSE 256
        IN  IF Len(h.rx_buf) < 2 + length THEN [h |-> h, consumed |-> FALSE]
            ELSE LET data == SubSeq(h.rx_buf, 3, 2 + length)
                     h1 == [h EXCEPT !.rx_buf = Drop(@, 2 + length)]
                 IN  [h |-> IF h1.file_handle = "none" THEN h1
                            ELSE IF io # "ok"
                            THEN _finish(_send_cancel(h1, TxtWriteError \o TxtOSError), FALSE,
                                         <<"File write error: ", TxtOSError>>)
                            ELSE _update_progress(
                                     [h1 EXCEPT !.written = IF h1.recording THEN @ \o data ELSE @,
                                                !.file_pos = @ + Len(data),
                                                !.bytes_transferred = @ + length]),
                      consumed |-> TRUE]
    ELSE IF first = ETX /\ second = 1 THEN
        LET h1 == _log([h EXCEPT !.rx_buf = Drop(@, 2)], "RECEIVED", <<"EF (End of File)">>)
            h2 == IF h1.file_handle # "none" THEN [h1 EXCEPT !.file_handle = "none"] ELSE h1
            h3 == _start_timer([_send_af(h2) EXCEPT !.state = "R_HEADER"])
        IN  [h |-> _log(h3, "SUCCESS", <<"File received", h3.filename, h3.bytes_transferred>>),
             consumed |-> TRUE]
    ELSE IF first = EOT /\ second = 1 THEN
        LET h1 == _log([h EXCEPT !.rx_buf = Drop(@, 2)], "RECEIVED", <<"ET (End of Transmission)">>)
            h2 == IF h1.file_handle # "none" THEN [h1 EXCEPT !.file_handle = "none"] ELSE h1
        IN  [h |-> _finish(_send_at(h2), TRUE, <<"Received", h2.filename, h2.bytes_transferred>>),
             consumed |-> TRUE]
    ELSE IF first = CAN THEN
        LET length == second
        IN  IF Len(h.rx_buf) < 2 + length THEN [h |-> h, consumed |-> FALSE]
            ELSE [h |-> _finish(_send_ca([h EXCEPT !.rx_buf = Drop(@, 2 + length)]),
                                FALSE, <<"Cancelled by remote">>),
                  consumed |-> TRUE]
    ELSE [h |-> h, consumed |-> TRUE]

\* io other than "ok" makes file_handle.write raise.
_process_receiver_data(h, first, second, io) ==
    IF first = STX THEN
        LET length == IF second # 0 THEN second ELSE 256
        IN  IF Len(h.rx_buf) < 2 + length THEN [h |-> h, consumed |-> FALSE]
            ELSE LET data == SubSeq(h.rx_buf, 3, 2 + length)
                     h1 == [h EXCEPT !.rx_buf = Drop(@, 2 + length)]
                 IN  [h |-> IF h1.file_handle = "none" THEN h1
                            ELSE IF io # "ok"
                            THEN _finish(_send_cancel(h1, TxtWriteError \o TxtOSError), FALSE,
                                         <<"File write error: ", TxtOSError>>)
                            ELSE _update_progress(
                                     [h1 EXCEPT !.written = IF h1.recording THEN @ \o data ELSE @,
                                                !.file_pos = @ + Len(data),
                                                !.bytes_transferred = @ + length]),
                      consumed |-> TRUE]
    ELSE IF first = ETX /\ second = 1 THEN
        LET h1 == _log([h EXCEPT !.rx_buf = Drop(@, 2)], "RECEIVED", <<"EF (End of File)">>)
            h2 == IF h1.file_handle # "none" THEN [h1 EXCEPT !.file_handle = "none"] ELSE h1
            h3 == _start_timer([_send_af(h2) EXCEPT !.state = "R_HEADER"])
        IN  [h |-> _log(h3, "SUCCESS", <<"File received", h3.filename, h3.bytes_transferred>>),
             consumed |-> TRUE]
    ELSE IF first = EOT /\ second = 1 THEN
        LET h1 == _log([h EXCEPT !.rx_buf = Drop(@, 2)], "RECEIVED", <<"ET (End of Transmission)">>)
            h2 == IF h1.file_handle # "none" THEN [h1 EXCEPT !.file_handle = "none"] ELSE h1
        IN  [h |-> _finish(_send_at(h2), TRUE, <<"Received", h2.filename, h2.bytes_transferred>>),
             consumed |-> TRUE]
    ELSE IF first = CAN THEN
        LET length == second
        IN  IF Len(h.rx_buf) < 2 + length THEN [h |-> h, consumed |-> FALSE]
            ELSE [h |-> _finish(_send_ca([h EXCEPT !.rx_buf = Drop(@, 2 + length)]),
                                FALSE, <<"Cancelled by remote">>),
                  consumed |-> TRUE]
    ELSE [h |-> [h EXCEPT !.rx_buf = Drop(@, 1)], consumed |-> TRUE]

_process_sender_data_interrupt(h, first, second) ==
    IF first = DLE THEN
        LET length == second
        IN  IF Len(h.rx_buf) < 2 + length THEN [h |-> h, consumed |-> FALSE]
            ELSE LET text == DecodeAscii(SubSeq(h.rx_buf, 3, 2 + length))
                     h1 == [h EXCEPT !.rx_buf = Drop(@, 2 + length)]
                 IN  [h |-> _log(h1, "RECEIVED", <<"TX", text>>), consumed |-> TRUE]
    ELSE LET h1 == _send_cancel([h EXCEPT !.rx_buf = <<>>], TxtUnexpectedData)
         IN  [h |-> _finish(h1, FALSE, <<"Protocol error: unexpected data during send">>),
              consumed |-> TRUE]

\* The "Cancel from remote at any time" block of _process_buffer, which
\* returns from the loop either way.
_process_buffer_cancel_m(h, second) ==
    LET length == second
    IN  IF Len(h.rx_buf) < 2 + length THEN h
        ELSE LET reason == DecodeAscii(SubSeq(h.rx_buf, 3, 2 + length))
                 h1 == [h EXCEPT !.rx_buf = Drop(@, 2 + length)]
                 h2 == _log(h1, "RECEIVED", <<"CN (Cancel)", reason>>)
             IN  _finish(h2, FALSE, <<"Cancelled by remote: ", reason>>)

_process_buffer_cancel(h, second) ==
    LET length == second
    IN  IF Len(h.rx_buf) < 2 + length THEN h
        ELSE LET reason == DecodeAscii(SubSeq(h.rx_buf, 3, 2 + length))
                 h1 == [h EXCEPT !.rx_buf = Drop(@, 2 + length)]
                 h2 == _log(h1, "RECEIVED", <<"CN (Cancel)", reason>>)
             IN  _finish(_send_ca(h2), FALSE, <<"Cancelled by remote: ", reason>>)

\* _process_buffer with `if` in place of `while`: one packet per call
_process_buffer_once(h, io) ==
    IF h.raised \/ Len(h.rx_buf) < 2 THEN h
    ELSE LET first == h.rx_buf[1]
             second == h.rx_buf[2]
         IN  IF first = CAN THEN _process_buffer_cancel(h, second)
             ELSE IF h.state \in {"IDLE", "DONE", "ERROR", "CW_WAIT"}
             THEN [h EXCEPT !.rx_buf = <<>>]
             ELSE LET r == CASE h.state \in {"S_INIT", "S_HEADER", "S_EOF", "S_EOT"} ->
                                    _process_sender_response(h, first, second, io)
                             [] h.state \in {"R_WAIT", "R_HEADER"} ->
                                    _process_receiver_control(h, first, second, io)
                             [] h.state = "R_DATA" ->
                                    _process_receiver_data(h, first, second, io)
                             [] h.state = "S_DATA" ->
                                    _process_sender_data_interrupt(h, first, second)
                  IN  r.h

\* r is the handler and whether it consumed bytes, as the state's _process_*
\* method returned them, taken once
RECURSIVE _process_buffer(_, _)
_process_buffer(h, io) ==
    IF h.raised \/ Len(h.rx_buf) < 2 THEN h
    ELSE LET first == h.rx_buf[1]
             second == h.rx_buf[2]
         IN  IF first = CAN THEN _process_buffer_cancel(h, second)
             ELSE IF h.state \in {"IDLE", "DONE", "ERROR", "CW_WAIT"}
             THEN [h EXCEPT !.rx_buf = <<>>]
             ELSE CHOOSE out \in {
                      IF r.consumed THEN _process_buffer(r.h, io) ELSE r.h :
                      r \in {CASE h.state \in {"S_INIT", "S_HEADER", "S_EOF", "S_EOT"} ->
                                    _process_sender_response(h, first, second, io)
                             [] h.state \in {"R_WAIT", "R_HEADER"} ->
                                    _process_receiver_control(h, first, second, io)
                             [] h.state = "R_DATA" ->
                                    _process_receiver_data(h, first, second, io)
                             [] h.state = "S_DATA" ->
                                    _process_sender_data_interrupt(h, first, second)} } : TRUE

(***************************************************************************)
(* Public API, as functions of the handler                                 *)
(***************************************************************************)
\* Returns [h, ok, message].  The session logs `trace`, `written` and
\* `finished` start empty with every session.
\* start_send that refuses only while is_active()
start_send_unless_active(h, filepath) ==
    IF h.state \notin {"IDLE", "DONE", "ERROR"}
    THEN [h |-> h, ok |-> FALSE, message |-> <<"Transfer already in progress">>]
    ELSE IF ~PathExists(filepath)
    THEN [h |-> h, ok |-> FALSE, message |-> <<"File not found: ", filepath>>]
    ELSE LET h1 == [h EXCEPT !.filename = BaseName(filepath),
                             !.file_size = GetSize(filepath)]
         IN  IF ~PathOpens(filepath)
             THEN [h |-> _reset(h1), ok |-> FALSE, message |-> <<"Error: ", "PermissionError">>]
             ELSE LET h2 == [h1 EXCEPT !.file_handle = "rb",
                                       !.file_path = filepath,
                                       !.file_pos = 0,
                                       !.bytes_transferred = 0,
                                       !.si_retries = 0,
                                       !.state = "S_INIT",
                                       !.rx_buf = <<>>,
                                       !.trace = <<>>, !.written = <<>>, !.fed = <<>>, !.finished = <<>>,
                                       !.tx_failed = FALSE]
                      h3 == _log(h2, "INFO", <<"Starting send", h2.filename, h2.file_size>>)
                  IN  [h |-> _send_si(h3), ok |-> TRUE, message |-> <<"Sending ", h3.filename>>]

\* start_send that has sent SendInit before the open fails, and does not reset
start_send_si_first(h, filepath) ==
    IF h.state # "IDLE"
    THEN [h |-> h, ok |-> FALSE, message |-> <<"Transfer already in progress">>]
    ELSE IF ~PathExists(filepath)
    THEN [h |-> h, ok |-> FALSE, message |-> <<"File not found: ", filepath>>]
    ELSE LET h1 == [h EXCEPT !.filename = BaseName(filepath),
                             !.file_size = GetSize(filepath)]
         IN  IF ~PathOpens(filepath)
             THEN [h |-> _send_si([h1 EXCEPT !.state = "S_INIT"]), ok |-> FALSE,
                   message |-> <<"Error: ", "PermissionError">>]
             ELSE LET h2 == [h1 EXCEPT !.file_handle = "rb",
                                       !.file_path = filepath,
                                       !.file_pos = 0,
                                       !.bytes_transferred = 0,
                                       !.si_retries = 0,
                                       !.state = "S_INIT",
                                       !.rx_buf = <<>>,
                                       !.trace = <<>>, !.written = <<>>, !.fed = <<>>, !.finished = <<>>,
                                       !.tx_failed = FALSE]
                      h3 == _log(h2, "INFO", <<"Starting send", h2.filename, h2.file_size>>)
                  IN  [h |-> _send_si(h3), ok |-> TRUE, message |-> <<"Sending ", h3.filename>>]

start_send(h, filepath) ==
    IF h.state # "IDLE"
    THEN [h |-> h, ok |-> FALSE, message |-> <<"Transfer already in progress">>]
    ELSE IF ~PathExists(filepath)
    THEN [h |-> h, ok |-> FALSE, message |-> <<"File not found: ", filepath>>]
    ELSE LET h1 == [h EXCEPT !.filename = BaseName(filepath),
                             !.file_size = GetSize(filepath)]
         IN  IF ~PathOpens(filepath)
             THEN [h |-> _reset(h1), ok |-> FALSE, message |-> <<"Error: ", "PermissionError">>]
             ELSE LET h2 == [h1 EXCEPT !.file_handle = "rb",
                                       !.file_path = filepath,
                                       !.file_pos = 0,
                                       !.bytes_transferred = 0,
                                       !.si_retries = 0,
                                       !.state = "S_INIT",
                                       !.rx_buf = <<>>,
                                       !.trace = <<>>, !.written = <<>>, !.fed = <<>>, !.finished = <<>>,
                                       !.tx_failed = FALSE]
                      h3 == _log(h2, "INFO", <<"Starting send", h2.filename, h2.file_size>>)
                  IN  [h |-> _send_si(h3), ok |-> TRUE, message |-> <<"Sending ", h3.filename>>]

start_receive(h) ==
    IF h.state # "IDLE"
    THEN [h |-> h, ok |-> FALSE, message |-> <<"Transfer already in progress">>]
    ELSE LET h1 == [h EXCEPT !.rx_buf = <<>>, !.bytes_transferred = 0,
                             !.filename = <<>>, !.file_size = 0,
                             !.state = "R_WAIT",
                             !.trace = <<>>, !.written = <<>>, !.fed = <<>>, !.finished = <<>>,
                                       !.tx_failed = FALSE]
             h2 == _log(h1, "INFO", <<"Waiting for sender (SI)...">>)
         IN  [h |-> _start_timer(h2), ok |-> TRUE, message |-> <<"Waiting for file transfer">>]

process_data(h, data, io) ==
    IF h.state = "IDLE" THEN h
    ELSE _process_buffer([h EXCEPT !.rx_buf = @ \o data,
                                   !.fed = IF h.recording THEN @ \o data ELSE @], io)

\* cancel() that sends Cancel and waits in CW_WAIT for the peer's CancelAck
cancel_wait_ack(h) ==
    IF h.state \in {"IDLE", "DONE", "ERROR"} THEN h
    ELSE _start_timer([_send_cancel(h, TxtCancelledByUser) EXCEPT !.state = "CW_WAIT"])

\* cancel() without the check of the state
cancel_unguarded(h) ==
    _finish(_send_cancel(h, TxtCancelledByUser), FALSE, <<"Transfer cancelled by user">>)

cancel(h) ==
    IF h.state \in {"IDLE", "DONE", "ERROR"} THEN h
    ELSE _finish(_send_cancel(h, TxtCancelledByUser), FALSE, <<"Transfer cancelled by user">>)

\* _on_timeout that repeats the Header instead of giving up in S_HEADER
_on_timeout_resend(h) ==
    IF h.state = "S_INIT" /\ h.si_retries < MAX_SI_RETRIES
    THEN LET h1 == [h EXCEPT !.si_retries = @ + 1]
         IN  _send_si(_log(h1, "INFO", <<"Timeout, retrying SI", h1.si_retries>>))
    ELSE IF h.state = "S_HEADER"
    THEN _start_timer(_send_header(h))
    ELSE IF h.state # "IDLE"
    THEN LET h1 == _log(h, "ERROR", <<"Timeout - no response from remote">>)
         IN  _finish(_send_cancel(h1, TxtTimeout), FALSE,
                     <<"Timeout: no response from remote station">>)
    ELSE h

\* _on_timeout that compares the retry counter with <=
_on_timeout_le(h) ==
    IF h.state = "S_INIT" /\ h.si_retries <= MAX_SI_RETRIES
    THEN LET h1 == [h EXCEPT !.si_retries = @ + 1]
         IN  _send_si(_log(h1, "INFO", <<"Timeout, retrying SI", h1.si_retries>>))
    ELSE IF h.state # "IDLE"
    THEN LET h1 == _log(h, "ERROR", <<"Timeout - no response from remote">>)
         IN  _finish(_send_cancel(h1, TxtTimeout), FALSE,
                     <<"Timeout: no response from remote station">>)
    ELSE h

_on_timeout(h) ==
    IF h.state = "S_INIT" /\ h.si_retries < MAX_SI_RETRIES
    THEN LET h1 == [h EXCEPT !.si_retries = @ + 1]
         IN  _send_si(_log(h1, "INFO", <<"Timeout, retrying SI", h1.si_retries>>))
    ELSE IF h.state # "IDLE"
    THEN LET h1 == _log(h, "ERROR", <<"Timeout - no response from remote">>)
         IN  _finish(_send_cancel(h1, TxtTimeout), FALSE,
                     <<"Timeout: no response from remote station">>)
    ELSE h

\* The session logs are dropped with the session.
reset_to_idle(h) == [_reset(h) EXCEPT !.trace = <<>>, !.written = <<>>, !.fed = <<>>, !.finished = <<>>,
                                       !.tx_failed = FALSE]

(***************************************************************************)
(* What the peer may put on the transport                                  *)
(***************************************************************************)
PktSI == <<ENQ, 1>>
PktRR == <<ACK, 1>>
PktRF == <<ACK, 2>>
PktAF == <<ACK, 3>>
PktAT == <<ACK, 4>>
PktCA == <<ACK, 5>>
PktRT == <<ACK, ACK>>
PktEF == <<ETX, 1>>
PktET == <<EOT, 1>>

PeerPackets ==
    { PktSI, PktRR, PktRF, PktAF, PktAT, PktCA, PktRT, PktEF, PktET,
      <<SOH, 4, 65, 0, 51, 0>>,     \* HD  "A" NUL "3" NUL
      <<SOH, 2, 0, 0>>,             \* HD  with an empty file name
      <<STX, 2, 120, 121>>,         \* DT  "xy"
      <<NAK, 1, 78>>,               \* NR  "N"
      <<NAK, 3, 82, 0, 0>>,         \* RE  "R" NUL NUL
      <<CAN, 1, 66>>,               \* CN  "B"
      <<DLE, 1, 72>>,               \* TX  "H"
      <<65>> }                      \* a stray byte

(***************************************************************************)
(* Actions                                                                 *)
(***************************************************************************)
\* The threads that call the engine: the GUI thread (user commands and the
\* serial polling loop) and the thread of an expired threading.Timer
Threads == {"gui", "timer"}

\* A thread that is not in a call of the engine
Outside == [pc |-> "out", op |-> "", arg |-> <<>>, seen |-> <<>>]

Apply(h) ==
    /\ state' = h.state
    /\ rx_buf' = h.rx_buf
    /\ file_handle' = h.file_handle
    /\ file_path' = h.file_path
    /\ written' = h.written
    /\ fed' = h.fed
    /\ connected' = h.connected
    /\ tx_failed' = h.tx_failed
    /\ file_pos' = h.file_pos
    /\ filename' = h.filename
    /\ file_size' = h.file_size
    /\ bytes_transferred' = h.bytes_transferred
    /\ timer' = h.timer
    /\ si_retries' = h.si_retries
    /\ sent' = h.sent
    /\ trace' = h.trace
    /\ recording' = h.recording
    /\ finished' = h.finished

Init ==
    /\ state = NewHandler.state
    /\ rx_buf = NewHandler.rx_buf
    /\ file_handle = NewHandler.file_handle
    /\ file_path = NewHandler.file_path
    /\ written = NewHandler.written
    /\ fed = NewHandler.fed
    /\ connected = NewHandler.connected
    /\ tx_failed = NewHandler.tx_failed
    /\ file_pos = NewHandler.file_pos
    /\ filename = NewHandler.filename
    /\ file_size = NewHandler.file_size
    /\ bytes_transferred = NewHandler.bytes_transferred
    /\ timer = NewHandler.timer
    /\ si_retries = NewHandler.si_retries
    /\ sent = NewHandler.sent
    /\ trace = NewHandler.trace
    /\ recording = NewHandler.recording
    /\ finished = NewHandler.finished
    /\ pending = 0
    /\ wire = <<>>
    /\ ret = <<>>
    /\ lock = "free"
    /\ threads = [t \in Threads |-> Outside]
    /\ peer = [h |-> NewHandler, inbox |-> <<>>]

StartSendFrom(paths) ==
    \E filepath \in paths :
        LET r == start_send(Self, filepath)
        IN  /\ Apply(r.h)
            /\ ret' = <<r.ok, r.message>>
            /\ UNCHANGED <<pending, wire, lock, threads, peer>>

StartSend == StartSendFrom({"d/missing", "d/locked", "d/a.txt"})

StartReceive ==
    LET r == start_receive(Self)
    IN  /\ Apply(r.h)
        /\ ret' = <<r.ok, r.message>>
        /\ UNCHANGED <<pending, wire, lock, threads, peer>>

\* Total length the two leading bytes of a buffer declare for a
\* length-prefixed packet (a Data length byte of 0 declares 256 bytes).
DeclaredLen(buf) == 2 + (IF buf[1] = STX /\ buf[2] = 0 THEN 256 ELSE buf[2])

\* The transport delivers as long as the bounds allow.
Deliverable(n) ==
    /\ Len(rx_buf) + n <= MaxBuf
    /\ Len(rx_buf) >= 2 => DeclaredLen(rx_buf) <= MaxBuf
    /\ file_handle = "wb" => file_pos < MaxRecv
    /\ Len(finished) < MaxFinished

\* The peer, for whom the session has not ended, sends a packet; the polling
\* loop hands process_data its first k bytes and the rest stays in flight.
ProcessData ==
    \E p \in PeerPackets, io \in {"ok", "fail", "fail_long"} :
        \E k \in 1..Len(p) :
            /\ wire = <<>>
            /\ state \notin {"DONE", "ERROR"}
            /\ Deliverable(k)
            /\ Apply(process_data(Self, SubSeq(p, 1, k), io))
            /\ wire' = Drop(p, k)
            /\ ret' = <<>>
            /\ UNCHANGED <<pending, lock, threads, peer>>

\* process_data is handed the next n bytes in flight.
DeliverN(n, io) ==
    /\ Apply(process_data(Self, SubSeq(wire, 1, n), io))
    /\ wire' = Drop(wire, n)
    /\ ret' = <<>>
    /\ UNCHANGED <<pending, lock, threads, peer>>

\* A later poll hands process_data the next n bytes in flight.
ProcessRest ==
    \E n \in 1..Len(wire), io \in {"ok", "fail", "fail_long"} :
        /\ Deliverable(n)
        /\ DeliverN(n, io)

Cancel ==
    /\ Apply(cancel(Self))
    /\ ret' = <<>>
    /\ UNCHANGED <<pending, wire, lock, threads, peer>>

ResetToIdle ==
    /\ Apply(reset_to_idle(Self))
    /\ ret' = <<>>
    /\ UNCHANGED <<pending, wire, lock, threads, peer>>

\* The armed Timer's interval elapses: its thread heads for _on_timeout.
TimerFire ==
    /\ timer = "armed"
    /\ pending < MaxPending
    /\ timer' = "fired"
    /\ pending' = pending + 1
    /\ UNCHANGED <<peer, state, rx_buf, file_handle, file_path, file_pos, written, fed, filename,
                   file_size, bytes_transferred, si_retries,
                   sent, connected, tx_failed, trace, recording, finished, wire, ret,
                   lock, threads>>

\* An expired Timer's thread gets the lock and runs _on_timeout.
OnTimeout ==
    /\ pending > 0
    /\ Apply(_on_timeout(Self))
    /\ pending' = pending - 1
    /\ ret' = <<>>
    /\ UNCHANGED <<wire, lock, threads, peer>>

Next ==
    \/ StartSend
    \/ StartReceive
    \/ ProcessData
    \/ ProcessRest
    \/ Cancel
    \/ ResetToIdle
    \/ TimerFire
    \/ OnTimeout

Spec == Init /\ [][Next]_vars

\* The same engine with the session recorder on
InitRecording ==
    /\ state = NewHandler.state
    /\ rx_buf = NewHandler.rx_buf
    /\ file_handle = NewHandler.file_handle
    /\ file_path = NewHandler.file_path
    /\ written = NewHandler.written
    /\ fed = NewHandler.fed
    /\ connected = NewHandler.connected
    /\ tx_failed = NewHandler.tx_failed
    /\ file_pos = NewHandler.file_pos
    /\ filename = NewHandler.filename
    /\ file_size = NewHandler.file_size
    /\ bytes_transferred = NewHandler.bytes_transferred
    /\ timer = NewHandler.timer
    /\ si_retries = NewHandler.si_retries
    /\ sent = NewHandler.sent
    /\ trace = NewHandler.trace
    /\ recording = TRUE
    /\ finished = NewHandler.finished
    /\ pending = 0
    /\ wire = <<>>
    /\ ret = <<>>
    /\ lock = "free"
    /\ threads = [t \in Threads |-> Outside]
    /\ peer = [h |-> NewHandler, inbox |-> <<>>]

\* One send session to which the peer never answers: the user starts a send
\* (and may try to start another), and only the deadline runs.
SilentNext ==
    \/ StartSendFrom(SendPaths)
    \/ TimerFire
    \/ OnTimeout

SpecSilent == InitRecording /\ [][SilentNext]_vars

\* A send session whose peer answers each stage: ReceiveReady to SendInit,
\* ReceiveFile to the Header, AckEof to Eof, AckEot to Eot.
PeerAnswer ==
    /\ wire = <<>>
    /\ rx_buf = <<>>
    /\ state \in {"S_INIT", "S_HEADER", "S_EOF", "S_EOT"}
    /\ wire' = CASE state = "S_INIT" -> PktRR
                 [] state = "S_HEADER" -> PktRF
                 [] state = "S_EOF" -> PktAF
                 [] state = "S_EOT" -> PktAT
    /\ UNCHANGED <<peer, state, rx_buf, file_handle, file_path, file_pos, written, fed, filename,
                   file_size, bytes_transferred, timer, si_retries,
                   sent, connected, tx_failed, trace, recording, finished, pending, ret,
                   lock, threads>>

\* A poll hands process_data the next n bytes in flight; storage works.
Deliver == \E n \in 1..Len(wire) : DeliverN(n, "ok")

SendNext ==
    \/ StartSendFrom(SendPaths)
    \/ PeerAnswer
    \/ Deliver

SpecSend == InitRecording /\ [][SendNext]_vars

\* What a sending peer transmits for one file: SendInit, Header, Data
\* packets, Eof, Eot.
RecvScripts ==
    { PktSI \o <<SOH, 4, 65, 0, 51, 0>> \o <<STX, 3, 120, 121, 122>> \o PktEF \o PktET,
      PktSI \o <<SOH, 3, 65, 0, 0>> \o PktEF \o PktET,
      PktSI \o <<SOH, 4, 98, 0, 50, 0>> \o <<STX, 1, 24>> \o <<STX, 1, 4>> \o PktEF \o PktET,
      PktSI \o <<SOH, 4, 99, 0, 120, 0>> \o <<STX, 2, 1, 5>> \o PktEF \o PktET,
      PktSI \o <<SOH, 5, 100, 0, 49, 0, 7>> \o <<STX, 1, 3>> \o PktEF \o PktET }

\* start_receive on the idle engine, with the peer's transmission in flight
StartReceiveFed ==
    \E script \in RecvScripts :
        LET r == start_receive(Self)
        IN  /\ state = "IDLE"
            /\ Apply(r.h)
            /\ ret' = <<r.ok, r.message>>
            /\ wire' = script
            /\ UNCHANGED <<pending, lock, threads, peer>>

RecvNext ==
    \/ StartReceiveFed
    \/ Deliver

SpecRecv == InitRecording /\ [][RecvNext]_vars

\* What a sending peer may transmit in one session: SendInit, then for each
\* file a Header, its Data packets and Eof, then Eot.
BatchScripts ==
    { PktSI \o PktET,
      PktSI \o <<SOH, 4, 65, 0, 51, 0>> \o <<STX, 3, 120, 121, 122>> \o PktEF \o PktET,
      PktSI \o <<SOH, 4, 65, 0, 50, 0>> \o <<STX, 1, 120>> \o <<STX, 1, 121>> \o PktEF \o PktET,
      PktSI \o <<SOH, 4, 65, 0, 51, 0>> \o <<STX, 3, 120, 121, 122>> \o PktEF
            \o <<SOH, 4, 66, 0, 50, 0>> \o <<STX, 2, 112, 113>> \o PktEF \o PktET,
      PktSI \o <<SOH, 4, 65, 0, 49, 0>> \o <<STX, 1, 120>> \o PktEF
            \o <<SOH, 4, 66, 0, 48, 0>> \o PktEF \o PktET }

\* start_receive on the idle engine, with such a transmission in flight
StartReceiveBatch ==
    \E script \in BatchScripts :
        LET r == start_receive(Self)
        IN  /\ state = "IDLE"
            /\ Apply(r.h)
            /\ ret' = <<r.ok, r.message>>
            /\ wire' = script
            /\ UNCHANGED <<pending, lock, threads, peer>>

BatchNext ==
    \/ StartReceiveBatch
    \/ Deliver

SpecBatch == InitRecording /\ [][BatchNext]_vars

\* The serial link fails: from now on send_bytes returns False.
Disconnect ==
    /\ connected
    /\ connected' = FALSE
    /\ UNCHANGED <<peer, state, rx_buf, file_handle, file_path, file_pos, written, fed, filename,
                   file_size, bytes_transferred, timer, si_retries,
                   sent, tx_failed, trace, recording, finished, pending, wire, ret,
                   lock, threads>>

\* Sessions of either role with an answering peer, over a link that may fail
LinkNext ==
    \/ StartSendFrom(SendPaths)
    \/ StartReceiveFed
    \/ PeerAnswer
    \/ Deliver
    \/ Disconnect

SpecLink == InitRecording /\ [][LinkNext]_vars

\* n bytes of file contents
Block(n) == [i \in 1..n |-> 48 + (i % 10)]

\* Transmissions of one file in one Data packet of 256 bytes (length byte 0),
\* of 255 bytes and of 1 byte
BlockScripts ==
    { PktSI \o <<SOH, 6, 65, 0, 50, 53, 54, 0>> \o <<STX, 0>> \o Block(256) \o PktEF \o PktET,
      PktSI \o <<SOH, 6, 66, 0, 50, 53, 53, 0>> \o <<STX, 255>> \o Block(255) \o PktEF \o PktET,
      PktSI \o <<SOH, 4, 67, 0, 49, 0>> \o <<STX, 1>> \o Block(1) \o PktEF \o PktET }

\* start_receive on the idle engine, with such a transmission in flight
StartReceiveBlock ==
    \E script \in BlockScripts :
        LET r == start_receive(Self)
        IN  /\ state = "IDLE"
            /\ Apply(r.h)
            /\ ret' = <<r.ok, r.message>>
            /\ wire' = script
            /\ UNCHANGED <<pending, lock, threads, peer>>

BlockNext ==
    \/ StartReceiveBlock
    \/ Deliver

SpecBlock == InitRecording /\ [][BlockNext]_vars

\* threading.Lock.acquire() at the head of a with self._lock block returns to
\* the caller only while no thread holds the lock
lock_acquire_always(holder) == TRUE

lock_acquire(holder) == holder = "free"

\* What a call does to the engine h and what it returns
CallResult(op, arg, h) ==
    CASE op = "start_send" ->
             LET r == start_send(h, arg[1]) IN [h |-> r.h, ret |-> <<r.ok, r.message>>]
      [] op = "start_receive" ->
             LET r == start_receive(h) IN [h |-> r.h, ret |-> <<r.ok, r.message>>]
      [] op = "process_data" -> [h |-> process_data(h, arg, "ok"), ret |-> <<>>]
      [] op = "cancel" -> [h |-> cancel(h), ret |-> <<>>]
      [] op = "reset_to_idle" -> [h |-> reset_to_idle(h), ret |-> <<>>]
      [] op = "_on_timeout" -> [h |-> _on_timeout(h), ret |-> <<>>]

\* The calls the GUI thread makes
GuiCalls ==
    { <<"start_send", <<"d/a.txt">> >>, <<"start_send", <<"d/missing">> >>,
      <<"start_receive", <<>> >>, <<"cancel", <<>> >>, <<"reset_to_idle", <<>> >> }
    \cup { <<"process_data", p>> : p \in { PktSI, PktRR, PktRF, PktAF, PktAT, PktEF, PktET,
                                          <<SOH, 4, 65, 0, 51, 0>>, <<STX, 2, 120, 121>>,
                                          <<NAK, 1, 78>>, <<CAN, 0>> } }

\* Thread t gets the lock and enters the with block of the call.
Enter(t, op, arg) ==
    /\ threads[t].pc = "out"
    /\ lock_acquire(lock)
    /\ lock' = t
    /\ threads' = [threads EXCEPT ![t] = [pc |-> "in", op |-> op, arg |-> arg, seen |-> Self]]
    /\ UNCHANGED <<peer, state, rx_buf, file_handle, file_path, file_pos, written, fed, filename,
                   file_size, bytes_transferred, timer, si_retries, sent, connected,
                   tx_failed, trace, recording, finished, wire, ret>>

GuiEnter ==
    \E call \in GuiCalls :
        /\ call[1] = "process_data" => Deliverable(Len(call[2]))
        /\ Enter("gui", call[1], call[2])
        /\ UNCHANGED pending

\* The thread of an expired Timer calls _on_timeout.
TimerEnter ==
    /\ pending > 0
    /\ Enter("timer", "_on_timeout", <<>>)
    /\ pending' = pending - 1

\* process_data, inside the with block: self._rx_buf.extend(data)
Extend(t) ==
    /\ threads[t].pc = "in"
    /\ threads[t].op = "process_data"
    /\ rx_buf' = IF state = "IDLE" THEN rx_buf ELSE rx_buf \o threads[t].arg
    /\ threads' = [threads EXCEPT ![t].pc = "mid"]
    /\ UNCHANGED <<peer, state, file_handle, file_path, file_pos, written, fed, filename,
                   file_size, bytes_transferred, timer, si_retries, sent, connected,
                   tx_failed, trace, recording, finished, pending, wire, ret, lock>>

\* The rest of the with block, and the release of the lock at its end
Leave(t) ==
    LET th == threads[t]
        r == IF th.op = "process_data"
             THEN [h |-> IF state = "IDLE" THEN Self ELSE _process_buffer(Self, "ok"),
                   ret |-> <<>>]
             ELSE CallResult(th.op, th.arg, Self)
    IN  /\ th.pc = IF th.op = "process_data" THEN "mid" ELSE "in"
        /\ Apply(r.h)
        /\ ret' = r.ret
        /\ lock' = "free"
        /\ threads' = [threads EXCEPT ![t] = Outside]
        /\ UNCHANGED <<pending, wire, peer>>

LockNext ==
    \/ GuiEnter
    \/ TimerEnter
    \/ \E t \in Threads : Extend(t)
    \/ \E t \in Threads : Leave(t)
    \/ TimerFire

SpecLock == Init /\ [][LockNext]_vars

\* The peer asks once, in answer to the Header, to resume at offset 5.
PeerResume ==
    /\ wire = <<>>
    /\ rx_buf = <<>>
    /\ state = "S_HEADER"
    /\ \A i \in 1..Len(fed) : fed[i] # NAK
    /\ wire' = <<NAK, 4, 82, 0, 53, 0>>
    /\ UNCHANGED <<peer, state, rx_buf, file_handle, file_path, file_pos, written, fed, filename,
                   file_size, bytes_transferred, timer, si_retries,
                   sent, connected, tx_failed, trace, recording, finished, pending, ret,
                   lock, threads>>

\* Send sessions whose peer may ask to resume before it accepts the file
ResumeNext ==
    \/ StartSendFrom({"d/a.txt", "d/e.bin", "d/big.bin"})
    \/ PeerAnswer
    \/ PeerResume
    \/ Deliver

SpecResume == InitRecording /\ [][ResumeNext]_vars

\* Files whose Header and Data packets a receiving engine is to decode: plain
\* and non-ASCII names, a short, a full and two Data packets
CodecPaths == {"d/a.txt", "d/año.txt", "d/f.bin", "d/big.bin", "d/t.bin"}

\* Send sessions of these files with an answering peer
CodecNext ==
    \/ StartSendFrom(CodecPaths)
    \/ PeerAnswer
    \/ Deliver

SpecCodec == InitRecording /\ [][CodecNext]_vars

(***************************************************************************)
(* process_data turn by turn: the GUI thread enters the with block, extends *)
(* the buffer, and takes the decode loop one iteration at a time; the data  *)
(* loop that ReceiveFile starts is taken one block at a time.               *)
(***************************************************************************)
\* One iteration of `while len(self._rx_buf) >= 2` in _process_buffer: the
\* handler after it and whether the loop goes on
Turn(h, io) ==
    IF Len(h.rx_buf) < 2 THEN [h |-> h, again |-> FALSE]
    ELSE LET first == h.rx_buf[1]
             second == h.rx_buf[2]
         IN  IF first = CAN THEN [h |-> _process_buffer_cancel(h, second), again |-> FALSE]
             ELSE IF h.state \in {"IDLE", "DONE", "ERROR", "CW_WAIT"}
             THEN [h |-> [h EXCEPT !.rx_buf = <<>>], again |-> FALSE]
             ELSE LET r == CASE h.state \in {"S_INIT", "S_HEADER", "S_EOF", "S_EOT"} ->
                                    _process_sender_response(h, first, second, io)
                             [] h.state \in {"R_WAIT", "R_HEADER"} ->
                                    _process_receiver_control(h, first, second, io)
                             [] h.state = "R_DATA" ->
                                    _process_receiver_data(h, first, second, io)
                             [] h.state = "S_DATA" ->
                                    _process_sender_data_interrupt(h, first, second)
                  IN  [h |-> r.h, again |-> r.consumed /\ ~r.h.raised]

\* Whether the iteration is the one that starts the data loop: ReceiveFile or
\* ReceiveTpk in S_INIT or S_HEADER
StartsDataLoop(h) ==
    /\ Len(h.rx_buf) >= 2
    /\ h.rx_buf[1] = ACK
    /\ h.rx_buf[2] \in {2, ACK}
    /\ h.state \in {"S_INIT", "S_HEADER"}

\* That iteration up to the call of _send_data_loop
EnterDataLoop(h) ==
    LET h1 == [_cancel_timer(h) EXCEPT !.rx_buf = Drop(@, 2)]
    IN  IF h.rx_buf[2] = 2
        THEN _log([_log(h1, "RECEIVED", <<"RF (Receive File)">>) EXCEPT !.state = "S_DATA"],
                  "INFO", <<"Sending data...">>)
        ELSE [_log(h1, "RECEIVED", <<"RT (YappC requested - not supported, using standard)">>)
                  EXCEPT !.state = "S_DATA"]

\* What the peer's bytes of one process_data call may be
LoopInputs ==
    { PktSI, PktRR \o PktRF, PktAF \o PktAT, PktET,
      <<SOH, 3, 65, 0, 0>>, <<STX, 1, 120>> \o PktEF,
      <<STX, 3, 120>>, <<NAK, 3, 78>>, <<CAN, 0>>,
      <<65>>, <<65, 66, 67, 68>> }

\* The engine inside the call: what it sent so far in this call is kept
Inside == [Self EXCEPT !.sent = sent]

GuiOut == threads["gui"].pc = "out"

LoopStartSend ==
    /\ GuiOut
    /\ StartSendFrom({"d/e.bin", "d/big.bin"})

LoopStartReceive ==
    /\ GuiOut
    /\ StartReceive

LoopReset ==
    /\ GuiOut
    /\ ResetToIdle

\* process_data: the lock is taken, and unless the engine is idle the bytes
\* are appended to the buffer
LoopEnter ==
    \E data \in LoopInputs, io \in {"ok", "fail"} :
        /\ GuiOut
        /\ lock_acquire(lock)
        /\ state # "IDLE"
        /\ Len(rx_buf) + Len(data) <= MaxLoop
        /\ file_handle = "wb" => file_pos < MaxRecv
        /\ Len(finished) < MaxFinished
        /\ lock' = "gui"
        /\ threads' = [threads EXCEPT !["gui"] = [pc |-> "loop", op |-> "process_data",
                                                  arg |-> <<data, io>>, seen |-> Self]]
        /\ rx_buf' = rx_buf \o data
        /\ fed' = IF recording THEN fed \o data ELSE fed
        /\ sent' = <<>>
        /\ ret' = <<>>
        /\ UNCHANGED <<peer, state, file_handle, file_path, file_pos, written, filename,
                       file_size, bytes_transferred, timer, si_retries, connected,
                       tx_failed, trace, recording, finished, pending, wire>>

\* One iteration of the decode loop; the call returns when the loop stops.
LoopTurn ==
    /\ threads["gui"].pc = "loop"
    /\ IF StartsDataLoop(Inside)
       THEN \E h \in {EnterDataLoop(Inside)} :
                /\ Apply(h)
                /\ threads' = [threads EXCEPT !["gui"].pc = "data"]
                /\ UNCHANGED lock
       ELSE \E r \in {Turn(Inside, threads["gui"].arg[2])} :
                /\ Apply(r.h)
                /\ threads' = [threads EXCEPT !["gui"] = IF r.again THEN @ ELSE Outside]
                /\ lock' = IF r.again THEN lock ELSE "free"
    /\ UNCHANGED <<pending, wire, ret, peer>>

\* One iteration of `while self.state == YappState.S_DATA` in
\* _send_data_loop; a read that raises leaves the call.
DataTurn ==
    /\ threads["gui"].pc = "data"
    /\ state = "S_DATA"
    /\ \E r \in {_send_data_block(Inside, threads["gui"].arg[2])} :
           IF r.h.raised
           THEN /\ Apply(r.h)
                /\ threads' = [threads EXCEPT !["gui"] = Outside]
                /\ lock' = "free"
           ELSE IF ~r.more
           THEN /\ \E h \in {_send_eof(IF r.h.file_handle # "none"
                                      THEN [r.h EXCEPT !.file_handle = "none"] ELSE r.h)} :
                       Apply(h)
                /\ threads' = [threads EXCEPT !["gui"].pc = "loop"]
                /\ UNCHANGED lock
           ELSE /\ Apply(r.h)
                /\ UNCHANGED <<threads, lock>>
    /\ UNCHANGED <<pending, wire, ret, peer>>

LoopNext ==
    \/ LoopStartSend
    \/ LoopStartReceive
    \/ LoopReset
    \/ LoopEnter
    \/ LoopTurn
    \/ DataTurn

SpecLoop == Init /\ [][LoopNext]_vars

\* A thread inside process_data keeps running: the loops are not suspended.
SpecLoopFair == SpecLoop /\ WF_vars(LoopTurn) /\ WF_vars(DataTurn)

(***************************************************************************)
(* The engine as the application runs it: on_finished is                    *)
(* MainWindow._yapp_on_finished, which calls reset_to_idle() on the handler *)
(* that is calling it.  A thread calls a method, waits at `with self._lock` *)
(* until it gets the lock, runs the body, and releases the lock on leaving. *)
(*   pc "want": at the with statement of the method called                  *)
(*      "in":   inside the with block                                       *)
(*      "cb":   inside on_finished, at the with statement of reset_to_idle  *)
(*      "cbin": inside the with block of that reset_to_idle                 *)
(***************************************************************************)
\* The calls the GUI thread makes; process_data is given one whole packet
AppCalls ==
    { <<"start_send", <<"d/a.txt">> >>, <<"start_receive", <<>> >>, <<"cancel", <<>> >> }
    \cup { <<"process_data", p>> : p \in { PktSI, PktRR, PktRF, PktAF, PktAT, PktET,
                                          <<NAK, 1, 78>>, <<CAN, 0>> } }

AppCall ==
    \E call \in AppCalls :
        /\ threads["gui"].pc = "out"
        /\ call[1] = "process_data" => rx_buf = <<>>
        /\ threads' = [threads EXCEPT !["gui"] = [pc |-> "want", op |-> call[1],
                                                  arg |-> call[2], seen |-> <<>>]]
        /\ UNCHANGED <<peer, state, rx_buf, file_handle, file_path, file_pos, written, fed, filename,
                       file_size, bytes_transferred, timer, si_retries, sent, connected,
                       tx_failed, trace, recording, finished, pending, wire, ret, lock>>

\* The thread of an expired Timer calls _on_timeout.
TimerCall ==
    /\ pending > 0
    /\ threads["timer"].pc = "out"
    /\ pending' = pending - 1
    /\ threads' = [threads EXCEPT !["timer"] = [pc |-> "want", op |-> "_on_timeout",
                                                arg |-> <<>>, seen |-> <<>>]]
    /\ UNCHANGED <<peer, state, rx_buf, file_handle, file_path, file_pos, written, fed, filename,
                   file_size, bytes_transferred, timer, si_retries, sent, connected,
                   tx_failed, trace, recording, finished, wire, ret, lock>>

\* with self._lock: the thread gets the lock once no thread holds it.
Acquire(t) ==
    /\ threads[t].pc \in {"want", "cb"}
    /\ lock_acquire(lock)
    /\ lock' = t
    /\ threads' = [threads EXCEPT ![t].pc = IF @ = "want" THEN "in" ELSE "cbin",
                                  ![t].seen = Self]
    /\ UNCHANGED <<peer, state, rx_buf, file_handle, file_path, file_pos, written, fed, filename,
                   file_size, bytes_transferred, timer, si_retries, sent, connected,
                   tx_failed, trace, recording, finished, pending, wire, ret>>

\* The body of the with block.  A body that comes to _finish calls
\* on_finished, which calls reset_to_idle: the thread is then at the with
\* statement of reset_to_idle, the lock of the outer block still held.  Any
\* other body ends, and the lock is released.  The body of the inner
\* reset_to_idle resets the engine, and the thread returns through
\* on_finished and _finish out of the method.
Body(t) ==
    IF threads[t].pc = "cbin"
    THEN /\ Apply(reset_to_idle(Self))
         /\ ret' = <<>>
         /\ lock' = "free"
         /\ threads' = [threads EXCEPT ![t] = Outside]
         /\ UNCHANGED <<pending, wire, peer>>
    ELSE /\ threads[t].pc = "in"
         /\ \E r \in {CallResult(threads[t].op, threads[t].arg, Self)} :
                /\ Apply(r.h)
                /\ IF Len(r.h.finished) > Len(finished)
                   THEN /\ threads' = [threads EXCEPT ![t].pc = "cb"]
                        /\ UNCHANGED <<lock, ret>>
                   ELSE /\ threads' = [threads EXCEPT ![t] = Outside]
                        /\ lock' = "free"
                        /\ ret' = r.ret
         /\ UNCHANGED <<pending, wire, peer>>

ReenterNext ==
    \/ AppCall
    \/ TimerCall
    \/ \E t \in Threads : Acquire(t)
    \/ \E t \in Threads : Body(t)
    \/ TimerFire

SpecReenter == Init /\ [][ReenterNext]_vars

\* A thread that can take a step takes it: threads are not suspended.
SpecReenterFair ==
    SpecReenter /\ \A t \in Threads : WF_vars(Acquire(t)) /\ WF_vars(Body(t))

(***************************************************************************)
(* Sessions whose peer falls silent: what it transmits before is in flight  *)
(* when the session starts, and nothing follows.  Armed deadlines expire    *)
(* and their callbacks run.                                                 *)
(***************************************************************************)
\* What a sending peer transmits before it falls silent
QuietSenderScripts ==
    { <<>>, PktSI, <<65, 66>>, PktSI \o <<65, 66>>, PktSI \o PktRR,
      PktSI \o <<SOH, 4, 65, 0>>,
      PktSI \o <<SOH, 4, 65, 0, 51, 0>>,
      PktSI \o <<SOH, 4, 65, 0, 51, 0>> \o <<STX, 3, 120>>,
      PktSI \o <<SOH, 4, 65, 0, 51, 0>> \o <<STX, 3, 120, 121, 122>>,
      PktSI \o <<SOH, 4, 65, 0, 51, 0>> \o <<STX, 3, 120, 121, 122>> \o PktEF }

\* What a receiving peer transmits before it falls silent
QuietReceiverScripts ==
    { <<>>, PktRR, <<65, 66>>, PktAF, <<NAK, 3, 78>>, <<DLE, 1, 72>>,
      PktRR \o <<65, 66>>, PktRR \o PktRF, PktRR \o PktRF \o PktAF }

StartReceiveQuiet ==
    \E script \in QuietSenderScripts :
        LET r == start_receive(Self)
        IN  /\ state = "IDLE"
            /\ Apply(r.h)
            /\ ret' = <<r.ok, r.message>>
            /\ wire' = script
            /\ UNCHANGED <<pending, lock, threads, peer>>

StartSendQuiet ==
    \E script \in QuietReceiverScripts :
        LET r == start_send(Self, "d/a.txt")
        IN  /\ state = "IDLE"
            /\ Apply(r.h)
            /\ ret' = <<r.ok, r.message>>
            /\ wire' = script
            /\ UNCHANGED <<pending, lock, threads, peer>>

QuietNext ==
    \/ StartReceiveQuiet
    \/ StartSendQuiet
    \/ Deliver
    \/ TimerFire
    \/ OnTimeout

SpecQuiet == Init /\ [][QuietNext]_vars

\* An armed Timer expires after its interval, and its thread runs.
SpecQuietFair == SpecQuiet /\ WF_vars(TimerFire) /\ WF_vars(OnTimeout)

(***************************************************************************)
(* Two engines back to back: this engine sends a file, the engine at the    *)
(* other end receives it.  What either gives to send_raw is in flight to    *)
(* the other, in order and without loss, and arrives in chunks.  No         *)
(* deadline expires, nobody cancels, and storage works.                     *)
(***************************************************************************)
\* Sizes of the chunks in which bytes in flight are handed to process_data
ChunkSizes(inflight) == {1, 2, 7, Len(inflight)} \cap (1..Len(inflight))

\* start_receive at the other end, file contents recorded
PairStartReceive ==
    /\ peer.h.state = "IDLE"
    /\ peer.h.finished = <<>>
    /\ \E r \in {start_receive([peer.h EXCEPT !.recording = TRUE])} :
           peer' = [peer EXCEPT !.h = r.h]
    /\ UNCHANGED <<state, rx_buf, file_handle, file_path, file_pos, written, fed, filename,
                   file_size, bytes_transferred, timer, si_retries, sent, connected,
                   tx_failed, trace, recording, finished, pending, wire, ret, lock, threads>>

\* start_send at this end; SendInit is in flight to the other end
PairStartSend ==
    \E filepath \in {"d/e.bin", "d/a.txt", "d/big.bin"} :
        /\ state = "IDLE"
        /\ finished = <<>>
        /\ \E r \in {start_send(Self, filepath)} :
               /\ Apply(r.h)
               /\ ret' = <<r.ok, r.message>>
               /\ peer' = [peer EXCEPT !.inbox = @ \o Flatten(r.h.sent)]
        /\ UNCHANGED <<pending, wire, lock, threads>>

\* The receiving engine, once started, is handed the next bytes in flight to
\* it; what it sends is in flight to this engine.
ToReceiver ==
    \E n \in ChunkSizes(peer.inbox) :
        /\ peer.h.state # "IDLE"
        /\ \E h \in {process_data([peer.h EXCEPT !.sent = <<>>, !.events = <<>>],
                                  SubSeq(peer.inbox, 1, n), "ok")} :
               /\ peer' = [h |-> h, inbox |-> Drop(peer.inbox, n)]
               /\ wire' = wire \o Flatten(h.sent)
        /\ UNCHANGED <<state, rx_buf, file_handle, file_path, file_pos, written, fed, filename,
                       file_size, bytes_transferred, timer, si_retries, sent, connected,
                       tx_failed, trace, recording, finished, pending, ret, lock, threads>>

\* This engine is handed the next bytes in flight to it; what it sends is in
\* flight to the other end.
ToSender ==
    \E n \in ChunkSizes(wire) :
        \E h \in {process_data(Self, SubSeq(wire, 1, n), "ok")} :
            /\ Apply(h)
            /\ wire' = Drop(wire, n)
            /\ ret' = <<>>
            /\ peer' = [peer EXCEPT !.inbox = @ \o Flatten(h.sent)]
            /\ UNCHANGED <<pending, lock, threads>>

PairNext ==
    \/ PairStartReceive
    \/ PairStartSend
    \/ ToReceiver
    \/ ToSender

SpecPair == Init /\ [][PairNext]_vars

\* The receiver is started, and bytes in flight arrive.
SpecPairFair ==
    SpecPair /\ WF_vars(PairStartReceive) /\ WF_vars(ToReceiver) /\ WF_vars(ToSender)

(***************************************************************************)
(* The public operations when no storage call raises: reads, writes and     *)
(* opens for writing succeed.  (send_raw returns False on failure and does  *)
(* not raise.)                                                              *)
(***************************************************************************)
CalmProcessData ==
    \E p \in PeerPackets :
        \E k \in 1..Len(p) :
            /\ wire = <<>>
            /\ state \notin {"DONE", "ERROR"}
            /\ Deliverable(k)
            /\ Apply(process_data(Self, SubSeq(p, 1, k), "ok"))
            /\ wire' = Drop(p, k)
            /\ ret' = <<>>
            /\ UNCHANGED <<pending, lock, threads, peer>>

CalmProcessRest ==
    \E n \in 1..Len(wire) :
        /\ Deliverable(n)
        /\ DeliverN(n, "ok")

CalmNext ==
    \/ StartSend
    \/ StartReceive
    \/ CalmProcessData
    \/ CalmProcessRest
    \/ Cancel
    \/ ResetToIdle
    \/ TimerFire
    \/ OnTimeout

SpecCalm == Init /\ [][CalmNext]_vars

(***************************************************************************)
(* Properties                                                              *)
(***************************************************************************)
ActiveStates == YappState \ {"IDLE", "DONE", "ERROR"}

WaitingStates == {"S_INIT", "S_HEADER", "S_EOF", "S_EOT", "R_WAIT", "R_HEADER"}

\* The fields of the session and its logs
SessionVars == <<state, rx_buf, file_handle, file_path, file_pos, filename, file_size,
                 bytes_transferred, timer, si_retries, trace, written, fed, finished,
                 connected, tx_failed>>

FinishedCall(success, message) == [success |-> success, message |-> message]

\* C1: on_finished is invoked at most once between a successful start and the
\* next reset or start, whatever bytes arrive after the terminal transition
\* and whenever an already expired timer gets to run.
C1_FinishedOnce == Len(finished) <= 1

\* C2: DONE and ERROR are absorbing: a step taken in DONE or ERROR either
\* resets the engine to IDLE or leaves the state as it is, calls on_finished
\* no further time and sends no packet.
C2_TerminalAbsorbing ==
    [][(state \in {"DONE", "ERROR"}) =>
          (\/ state' = "IDLE"
           \/ /\ state' = state
              /\ finished' = finished
              /\ (sent' = <<>> \/ sent' = sent))]_vars

\* C3: a start_send or start_receive call made while state is not IDLE
\* returns (False, message), leaves every field of the session and its logs
\* as they are and sends no packet; a start call succeeds only from IDLE.
C3_StartRejected ==
    [][(StartSendFrom(SendPaths) \/ StartReceive) =>
          (/\ state # "IDLE" => (/\ ret'[1] = FALSE
                                 /\ UNCHANGED SessionVars
                                 /\ sent' = <<>>)
           /\ ret'[1] = TRUE => state = "IDLE")]_vars

\* A start call was refused in the middle of a send session.
C3_Witness ==
    /\ ret = <<FALSE, <<"Transfer already in progress">>>>
    /\ state = "S_HEADER"
    /\ file_handle = "rb"
    /\ timer = "armed"

\* C5: when no expired timer is waiting to run and the state is a
\* waiting-for-peer state, the deadline is armed.
C5_DeadlineArmed == (pending = 0 /\ state \in WaitingStates) => timer = "armed"

\* Cancel reasons as bytes on the wire and as the text reported
CancelReasons == { <<<<>>, <<>>>>, <<<<66>>, <<66>>>>, <<<<98, 200>>, <<98, 65533>>>> }

\* C6: in every active state, a process_data call that completes a Cancel
\* packet at the front of the receive buffer consumes exactly that packet,
\* sends exactly one CancelAck (ACK 05), closes the file, disarms the
\* deadline, and moves to ERROR with
\* on_finished(False, "Cancelled by remote: <reason>").
C6_RemoteCancel ==
    state \in ActiveStates =>
        \A cr \in CancelReasons, tail \in {<<>>, <<65>>, <<ENQ, 1>>}, io \in {"ok", "fail"} :
            LET pkt == <<CAN, Len(cr[1])>> \o cr[1]
                h == process_data(Self, Drop(pkt, Len(rx_buf)) \o tail, io)
            IN  (Len(rx_buf) < Len(pkt) /\ rx_buf = SubSeq(pkt, 1, Len(rx_buf))) =>
                    /\ h.state = "ERROR"
                    /\ h.sent = << <<6, 5>> >>
                    /\ h.file_handle = "none"
                    /\ h.timer = "none"
                    /\ h.rx_buf = tail
                    /\ h.finished = Append(finished,
                           FinishedCall(FALSE, <<"Cancelled by remote: ", cr[2]>>))
                    /\ ~h.raised

\* A Cancel of the peer ended a receive session whose file was open.
C6_Witness ==
    /\ state = "ERROR"
    /\ sent = << <<6, 5>> >>
    /\ finished = <<FinishedCall(FALSE, <<"Cancelled by remote: ", <<66>>>>)>>
    /\ file_path = "download"
    /\ file_handle = "none"

\* C7: cancel() in any active state sends exactly one Cancel packet, closes
\* the file, disarms the deadline and moves to ERROR with on_finished(False, ..)
\* within the call.
C7_LocalCancel ==
    state \in ActiveStates =>
        LET h == cancel(Self)
        IN  /\ h.sent = << <<24, 17>> \o TxtCancelledByUser >>
            /\ h.file_handle = "none"
            /\ h.timer = "none"
            /\ h.state = "ERROR"
            /\ h.finished = Append(finished,
                   FinishedCall(FALSE, <<"Transfer cancelled by user">>))

\* cancel() ended a send session.
C7_Witness ==
    /\ state = "ERROR"
    /\ sent = << <<24, 17>> \o TxtCancelledByUser >>
    /\ finished = <<FinishedCall(FALSE, <<"Transfer cancelled by user">>)>>
    /\ file_path = "d/a.txt"
    /\ file_handle = "none"
    /\ timer = "none"

\* C8: cancel() is idempotent: a second cancel() right after the first
\* changes nothing, sends nothing and calls no callback, and cancel() in
\* IDLE, DONE or ERROR is a no-op.
C8_CancelIdempotent ==
    LET once == cancel(Self)
        between == [once EXCEPT !.sent = <<>>, !.events = <<>>]
        twice == cancel(between)
    IN  /\ twice = between
        /\ state \in {"IDLE", "DONE", "ERROR"} => once = Self

\* cancel() was called again after it had ended a session.
C8_Witness ==
    /\ state = "ERROR"
    /\ finished = <<FinishedCall(FALSE, <<"Transfer cancelled by user">>)>>
    /\ sent = <<>>
    /\ ret = <<>>
    /\ wire = <<>>
    /\ pending = 0

\* n copies of a packet
RECURSIVE Repeat(_, _)
Repeat(pkt, n) == IF n = 0 THEN <<>> ELSE Append(Repeat(pkt, n - 1), pkt)

\* C4: in a send session the peer never answers, the retry counter stays in
\* 0..MAX_SI_RETRIES; while in S_INIT the session has sent one SendInit plus
\* one per expiry; each expiry in S_INIT below the limit resends SendInit,
\* adds one to the counter and re-arms the deadline, and the expiry at the
\* limit (the 6th) sends Cancel and ends in ERROR with on_finished(False,
\* timeout message), after exactly 6 SendInit packets.
C4_SilentInv ==
    /\ si_retries \in 0..MAX_SI_RETRIES
    /\ state \in {"IDLE", "S_INIT", "ERROR"}
    /\ state = "S_INIT" =>
           /\ trace = Repeat(<<5, 1>>, si_retries + 1)
           /\ timer \in {"armed", "fired"}
           /\ finished = <<>>
    /\ state = "ERROR" =>
           /\ trace = Append(Repeat(<<5, 1>>, 6), <<24, 7>> \o TxtTimeout)
           /\ si_retries = 5
           /\ timer = "none"
           /\ file_handle = "none"
           /\ finished = <<FinishedCall(FALSE, <<"Timeout: no response from remote station">>)>>

C4_ExpiryStep ==
    OnTimeout =>
        /\ (state = "S_INIT" /\ si_retries < 5) =>
               /\ state' = "S_INIT"
               /\ si_retries' = si_retries + 1
               /\ sent' = << <<5, 1>> >>
               /\ timer' = "armed"
        /\ (state = "S_INIT" /\ si_retries = 5) =>
               /\ state' = "ERROR"
               /\ sent' = << <<24, 7>> \o TxtTimeout >>

C4_SilentSend == []C4_SilentInv /\ [][C4_ExpiryStep]_vars

\* The 6th expiry ended the silent session.
C4_Witness ==
    /\ state = "ERROR"
    /\ si_retries = MAX_SI_RETRIES
    /\ Len(trace) = 7
    /\ finished = <<FinishedCall(FALSE, <<"Timeout: no response from remote station">>)>>

\* The Header a send session owes for each file: SOH, length, the file's
\* name, NUL, its size in decimal digits, NUL.
ExpectedHeader(filepath) ==
    CASE filepath = "d/a.txt" -> <<1, 9, 97, 46, 116, 120, 116, 0, 49, 48, 0>>
      [] filepath = "d/e.bin" -> <<1, 8, 101, 46, 98, 105, 110, 0, 48, 0>>
      [] filepath = "d/f.bin" -> <<1, 10, 102, 46, 98, 105, 110, 0, 50, 53, 48, 0>>
      [] filepath = "d/big.bin" -> <<1, 12, 98, 105, 103, 46, 98, 105, 110, 0, 50, 53, 49, 0>>
      [] filepath = "d/t.bin" -> <<1, 10, 116, 46, 98, 105, 110, 0, 53, 48, 48, 0>>
      [] OTHER -> <<>>

\* The Data packets owed for a file's bytes: blocks of at most 250 bytes
RECURSIVE ExpectedData(_)
ExpectedData(bytes) ==
    IF bytes = <<>> THEN <<>>
    ELSE LET n == Min(Len(bytes), 250)
         IN  << <<2, n>> \o SubSeq(bytes, 1, n) >> \o ExpectedData(Drop(bytes, n))

ExpectedUpToEof ==
    << <<5, 1>>, ExpectedHeader(file_path) >> \o ExpectedData(FileData(file_path))
        \o << <<3, 1>> >>

\* C9: in a send session answered in order by ReceiveReady, ReceiveFile,
\* AckEof and AckEot the engine has sent, and nothing else: SendInit while in
\* S_INIT; then the Header (name NUL decimal size NUL) in S_HEADER; then
\* the file's Data packets and Eof in S_EOF; then Eot in S_EOT; on_finished
\* is called only on reaching DONE, with success, once, and then
\* bytes_transferred is the file's size.  The state moves only along
\* S_INIT, S_HEADER, (S_DATA within the ReceiveFile call), S_EOF, S_EOT, DONE.
C9_SendInv ==
    /\ state \in {"IDLE", "S_INIT", "S_HEADER", "S_EOF", "S_EOT", "DONE"}
    /\ state = "S_INIT" => trace = << <<5, 1>> >>
    /\ state = "S_HEADER" =>
           /\ trace = << <<5, 1>>, ExpectedHeader(file_path) >>
           /\ LET h == process_data(Self, SubSeq(<<6, 2>>, Len(rx_buf) + 1, 2), "ok")
              IN  /\ h.state = "S_EOF"
                  /\ \E i \in DOMAIN h.events :
                         /\ h.events[i][1] = "INFO"
                         /\ h.events[i][2] = <<"Sending data...">>
    /\ state = "S_EOF" =>
           /\ trace = ExpectedUpToEof
           /\ bytes_transferred = GetSize(file_path)
    /\ state = "S_EOT" => trace = Append(ExpectedUpToEof, <<4, 1>>)
    /\ state = "DONE" =>
           /\ trace = Append(ExpectedUpToEof, <<4, 1>>)
           /\ bytes_transferred = GetSize(file_path)
           /\ file_handle = "none"
           /\ finished = <<FinishedCall(TRUE, <<"File sent successfully: ", filename>>)>>
    /\ state # "DONE" => finished = <<>>

C9_SendStep ==
    state' # state =>
        <<state, state'>> \in { <<"IDLE", "S_INIT">>, <<"S_INIT", "S_HEADER">>,
                                <<"S_HEADER", "S_EOF">>, <<"S_EOF", "S_EOT">>,
                                <<"S_EOT", "DONE">> }

C9_AnsweredSend == []C9_SendInv /\ [][C9_SendStep]_vars

\* A file of two Data packets was sent and acknowledged.
C9_Witness ==
    /\ state = "DONE"
    /\ file_path = "d/big.bin"
    /\ Len(trace) = 6
    /\ bytes_transferred = 251
    /\ sent = <<>>

\* Control packets (SendInit, Header, Eof, Eot) in a stream of whole packets
RECURSIVE ControlPackets(_)
ControlPackets(bytes) ==
    IF Len(bytes) < 2 THEN 0
    ELSE IF bytes[1] = 2
    THEN ControlPackets(Drop(bytes, 2 + (IF bytes[2] = 0 THEN 256 ELSE bytes[2])))
    ELSE IF bytes[1] = 1
    THEN 1 + ControlPackets(Drop(bytes, 2 + bytes[2]))
    ELSE 1 + ControlPackets(Drop(bytes, 2))

\* C10: in a receive session fed SendInit, Header, Data packets, Eof, Eot,
\* however the bytes are chunked, the engine has sent one answer per
\* control packet completely received, in the order ReceiveReady,
\* ReceiveFile, AckEof, AckEot, and nothing else; its state is R_WAIT, then
\* R_HEADER, R_DATA (file open), R_HEADER (file closed, deadline armed),
\* DONE according to the answers given, and on_finished(True, ..) is called
\* once, when AckEot has been sent.
C10_FedReceive ==
    state # "IDLE" =>
        LET k == Len(trace)
        IN  /\ k <= 4
            /\ trace = SubSeq(<< <<6, 1>>, <<6, 2>>, <<6, 3>>, <<6, 4>> >>, 1, k)
            /\ k = 4 - ControlPackets(rx_buf \o wire)
            /\ state = CASE k = 0 -> "R_WAIT"
                         [] k = 1 -> "R_HEADER"
                         [] k = 2 -> "R_DATA"
                         [] k = 3 -> "R_HEADER"
                         [] OTHER -> "DONE"
            /\ k \in {0, 1} => file_handle = "none"
            /\ k = 2 => file_handle = "wb"
            /\ k = 3 => file_handle = "none" /\ timer = "armed"
            /\ k < 4 => finished = <<>>
            /\ k = 4 =>
                   /\ finished = <<FinishedCall(TRUE, <<"Transfer complete (no files)">>)>>
                   /\ file_handle = "none"
                   /\ timer = "none"

\* A file whose bytes are control codes was received to the end.
C10_Witness ==
    /\ state = "DONE"
    /\ trace = << <<6, 1>>, <<6, 2>>, <<6, 3>>, <<6, 4>> >>
    /\ written = <<24, 4>>
    /\ wire = <<>>

\* C11: in every reachable state with state DONE or ERROR no file handle is
\* open and no deadline is armed, whichever path led there.
C11_TerminalClosed ==
    state \in {"DONE", "ERROR"} => (file_handle = "none" /\ timer = "none")

\* A failed write ended a receive session whose file was open.
C11_Witness ==
    /\ state = "ERROR"
    /\ file_path = "download"
    /\ Len(finished) = 1
    /\ finished[1].message = <<"File write error: ", TxtOSError>>

\* Sum of the payload lengths of the Data packets in a stream of whole packets
RECURSIVE DataSum(_)
DataSum(bytes) ==
    IF Len(bytes) < 2 THEN 0
    ELSE IF bytes[1] = 2
    THEN LET n == IF bytes[2] = 0 THEN 256 ELSE bytes[2]
         IN  n + DataSum(Drop(bytes, 2 + n))
    ELSE IF bytes[1] = 1
    THEN DataSum(Drop(bytes, 2 + bytes[2]))
    ELSE DataSum(Drop(bytes, 2))

\* C12: when a receive session reaches DONE, bytes_transferred is the sum of
\* the payload lengths of all Data packets the session received, for any
\* number of Data packets and any sequence of Headers and Eofs before the
\* final Eot.
C12_ReceivedSum == state = "DONE" => bytes_transferred = DataSum(fed)

\* C13: in every reachable state of either role, if file_size > 0 then
\* bytes_transferred <= file_size.
C13_WithinSize == file_size > 0 => bytes_transferred <= file_size

\* C14: within one session bytes_transferred never decreases: a step lowers
\* it only by starting a session (a start call returning True) or by leaving
\* the session for IDLE.
C14_NeverDecreases ==
    [][(bytes_transferred' < bytes_transferred) =>
           (state' = "IDLE" \/ (ret' # <<>> /\ ret'[1] = TRUE))]_vars

\* Text packets: DLE, length, payload
TextPackets == { <<DLE, 1, 72>>, <<DLE, 2, 6, 5>>, <<DLE, 2, 4, 1>>, <<DLE, 0>> }

\* C15: a Text packet received in any non-terminal state of either role,
\* with the receive buffer empty, is consumed as one whole packet, is
\* surfaced through on_event, and causes no state transition and no packet
\* to be sent, whatever its length and payload.
C15_TextAccepted ==
    (state \in ActiveStates /\ rx_buf = <<>>) =>
        \A pkt \in TextPackets :
            LET h == process_data(Self, pkt, "ok")
            IN  /\ h.rx_buf = <<>>
                /\ h.state = state
                /\ h.sent = <<>>
                /\ h.finished = finished
                /\ \E i \in DOMAIN h.events :
                       /\ h.events[i][1] = "RECEIVED"
                       /\ h.events[i][2] = <<"TX", DecodeAscii(Drop(pkt, 2))>>

\* C16: if send_raw returned failure for a packet emitted during a session,
\* the session has ended in ERROR with on_finished(False, ..): the engine
\* does not go on as if the packet had been sent.
C16_SendFailureFatal ==
    tx_failed =>
        /\ state = "ERROR"
        /\ finished # <<>>
        /\ ~finished[Len(finished)].success

\* C17: every storage failure during a session (the open for write on a
\* Header, the write of a Data packet, the read while the sender emits Data)
\* ends the session within the process_data call: state ERROR, file closed,
\* deadline disarmed, one on_finished(False, ..), and no exception leaves
\* process_data.
C17_StorageFailureEnds ==
    LET Ended(h) == /\ ~h.raised
                    /\ h.state = "ERROR"
                    /\ h.file_handle = "none"
                    /\ h.timer = "none"
                    /\ Len(h.finished) = Len(finished) + 1
                    /\ ~h.finished[Len(h.finished)].success
    IN  rx_buf = <<>> =>
            /\ state \in {"R_WAIT", "R_HEADER"} =>
                   Ended(process_data(Self, <<SOH, 4, 65, 0, 51, 0>>, "fail"))
            /\ (state = "R_DATA" /\ file_handle = "wb") =>
                   Ended(process_data(Self, <<STX, 1, 120>>, "fail"))
            /\ state \in {"S_INIT", "S_HEADER"} =>
                   Ended(process_data(Self, <<ACK, 2>>, "fail"))


\* C18: a Header received in R_WAIT or R_HEADER whose file name field is empty,
\* or whose target file cannot be opened for write, is answered with one
\* NotReady packet carrying the reason, leaves no file open and ends in ERROR
\* with one on_finished(False, ..); any other Header is answered with
\* ReceiveFile and leads to R_DATA; so the file name is non-empty in R_DATA.
C18_HeaderOutcome ==
    /\ state = "R_DATA" => filename # <<>>
    /\ (state \in {"R_WAIT", "R_HEADER"} /\ rx_buf = <<>>) =>
           \A pkt \in {<<SOH, 4, 65, 0, 51, 0>>, <<SOH, 2, 0, 0>>},
              io \in {"ok", "fail", "fail_long"} :
               LET h == process_data(Self, pkt, io)
                   name == SplitNul(Drop(pkt, 2))[1]
                   reason == IF name = <<>> THEN TxtInvalidFilename
                             ELSE TxtCannotCreate \o OpenErrorText(io)
               IN  IF name = <<>> \/ io # "ok"
                   THEN /\ ~h.raised
                        /\ Len(h.sent) = 1
                        /\ h.sent[1][1] = NAK
                        /\ Drop(h.sent[1], 2) = reason
                        /\ h.file_handle = "none"
                        /\ h.state = "ERROR"
                        /\ Len(h.finished) = Len(finished) + 1
                        /\ ~h.finished[Len(h.finished)].success
                   ELSE /\ h.sent = <<PktRF>>
                        /\ h.state = "R_DATA"
                        /\ h.file_handle = "wb"
                        /\ h.filename = name


\* C19: a NotReady packet (NAK whose payload does not start with 'R') handled
\* in S_INIT, S_HEADER, S_EOF or S_EOT ends the session in ERROR with
\* on_finished(False, "Remote not ready: <reason>"), closes the file and sends
\* nothing; and while the session stays in ERROR after it, no later step sends
\* a packet (no retry, no further packet from the engine).
C19_NotReadyFinal ==
    /\ []((state \in {"S_INIT", "S_HEADER", "S_EOF", "S_EOT"} /\ rx_buf = <<>>) =>
              \A pkt \in {<<NAK, 1, 78>>, <<NAK, 0>>} :
                  LET h == process_data(Self, pkt, "ok")
                  IN  /\ h.state = "ERROR"
                      /\ h.sent = <<>>
                      /\ h.file_handle = "none"
                      /\ h.timer = "none"
                      /\ h.finished = Append(finished,
                             FinishedCall(FALSE, <<"Remote not ready: ", Drop(pkt, 2)>>)))
    /\ [][(/\ state = "ERROR"
           /\ finished # <<>>
           /\ finished[Len(finished)].message[1] = "Remote not ready: "
           /\ state' = "ERROR") => (sent' = <<>>)]_vars


\* C20: an expiry of the deadline in S_INIT at the retry limit, S_HEADER,
\* S_DATA, S_EOF, S_EOT, R_WAIT, R_HEADER or R_DATA sends exactly one packet,
\* Cancel "Timeout", and ends the session in ERROR with the timeout message,
\* the file closed and no deadline armed; nothing is resent and si_retries is
\* not touched, so S_INIT below the limit is the only state that retries.
C20_ExpiryFatal ==
    (\/ state \in {"S_HEADER", "S_DATA", "S_EOF", "S_EOT", "R_WAIT", "R_HEADER", "R_DATA"}
     \/ (state = "S_INIT" /\ si_retries >= MAX_SI_RETRIES)) =>
        LET h == _on_timeout(Self)
        IN  /\ h.sent = << <<CAN, 7>> \o TxtTimeout >>
            /\ h.state = "ERROR"
            /\ h.finished = Append(finished,
                   FinishedCall(FALSE, <<"Timeout: no response from remote station">>))
            /\ h.file_handle = "none"
            /\ h.timer = "none"
            /\ h.si_retries = si_retries

\* An expiry after the SendInit was answered (no retry was made) has ended a
\* send of d/a.txt: one Cancel "Timeout" sent, one on_finished, file closed.
C20_Witness ==
    /\ state = "ERROR"
    /\ pending = 0
    /\ sent = << <<CAN, 7>> \o TxtTimeout >>
    /\ finished = <<FinishedCall(FALSE, <<"Timeout: no response from remote station">>)>>
    /\ file_path = "d/a.txt"
    /\ filename # <<>>
    /\ si_retries = 0
    /\ file_handle = "none"


\* Byte sequences a peer can put on the line: one packet, or a packet
\* followed by a Cancel packet
ChunkStreams ==
    PeerPackets \cup { p \o <<CAN, 0>> : p \in {PktSI, PktRR, <<NAK, 1, 78>>, <<CAN, 1, 66>>} }

\* process_data called once for every byte of s
RECURSIVE FeedBytes(_, _)
FeedBytes(h, s) ==
    IF s = <<>> THEN h ELSE FeedBytes(process_data(h, <<s[1]>>, "ok"), Drop(s, 1))

\* C21: in every state, a byte sequence delivered to process_data all at once,
\* in two chunks split anywhere, or one byte at a time gives the same packets
\* sent, the same callbacks and the same final state, counters and buffer.
C21_ChunkIndependent ==
    \A s \in ChunkStreams :
        LET whole == process_data(Self, s, "ok")
        IN  /\ FeedBytes(Self, s) = whole
            /\ \A k \in 1..(Len(s) - 1) :
                   process_data(process_data(Self, SubSeq(s, 1, k), "ok"), Drop(s, k), "ok") = whole


\* A second engine, the receiver of what this one sends: after start_receive,
\* after SendInit, and after a Header
RxWait == [start_receive([NewHandler EXCEPT !.recording = TRUE]).h EXCEPT !.sent = <<>>, !.events = <<>>]
RxHeader == [process_data(RxWait, PktSI, "ok") EXCEPT !.sent = <<>>, !.events = <<>>]
RxData == [process_data(RxHeader, <<SOH, 4, 65, 0, 51, 0>>, "ok") EXCEPT !.sent = <<>>, !.events = <<>>]

\* C22: what the packet builders produce, a receiving engine decodes to the
\* same thing and consumes entirely: the Header built on ReceiveReady gives the
\* receiver the sender's file name and size; the Data packets and Eof built on
\* ReceiveFile give it the file's bytes; SendInit and Eot are decoded as such;
\* a NotReady or Cancel built with a reason is decoded with that reason.
C22_RoundTrip ==
    /\ (state = "S_INIT" /\ rx_buf = <<>>) =>
           LET hs == process_data(Self, PktRR, "ok")
               hr == process_data(RxHeader, Flatten(hs.sent), "ok")
           IN  /\ Len(hs.sent) = 1
               /\ hr.rx_buf = <<>>
               /\ hr.state = "R_DATA"
               /\ hr.filename = filename
               /\ hr.file_size = file_size
    /\ (state = "S_HEADER" /\ rx_buf = <<>>) =>
           LET hs == process_data(Self, PktRF, "ok")
               hr == process_data(RxData, Flatten(hs.sent), "ok")
           IN  /\ hr.rx_buf = <<>>
               /\ hr.state = "R_HEADER"
               /\ hr.written = FileData(file_path)
               /\ hr.bytes_transferred = Len(FileData(file_path))
               /\ hr.sent = <<PktAF>>
    /\ (state = "S_EOF" /\ rx_buf = <<>>) =>
           LET hs == process_data(Self, PktAF, "ok")
               hr == process_data(RxHeader, Flatten(hs.sent), "ok")
           IN  /\ hr.rx_buf = <<>>
               /\ hr.state = "DONE"
               /\ hr.sent = <<PktAT>>
    /\ (state = "S_INIT" /\ rx_buf = <<>>) =>
           LET hr == process_data(RxWait, Flatten(sent), "ok")
           IN  sent # <<>> => (hr.rx_buf = <<>> /\ hr.state = "R_HEADER" /\ hr.sent = <<PktRR>>)
    /\ (state = "S_HEADER" /\ rx_buf = <<>>) =>
           \A reason \in {TxtInvalidFilename, TxtCannotCreate \o TxtOSError} :
               LET pkt == _send_nr(RxHeader, reason).sent[1]
                   h == process_data(Self, pkt, "ok")
               IN  /\ h.rx_buf = <<>>
                   /\ h.finished = Append(finished,
                          FinishedCall(FALSE, <<"Remote not ready: ", reason>>))
    /\ (state \in {"S_INIT", "S_HEADER", "S_EOF", "S_EOT"} /\ rx_buf = <<>>) =>
           \A reason \in {TxtTimeout, TxtCancelledByUser, TxtWriteError \o TxtOSError} :
               LET pkt == _send_cancel(RxData, reason).sent[1]
                   h == process_data(Self, pkt, "ok")
               IN  /\ h.rx_buf = <<>>
                   /\ h.finished = Append(finished,
                          FinishedCall(FALSE, <<"Cancelled by remote: ", reason>>))


\* C23: in R_DATA with the file open, a Data packet with length byte 0 is
\* consumed only once its 2 + 256 bytes are buffered (with one byte missing
\* nothing is consumed or written), then exactly these 258 bytes are consumed,
\* 256 bytes written and bytes_transferred advanced by 256; with a length byte
\* n in 1..255 exactly 2 + n bytes are consumed and n written.  A byte behind
\* the packet stays buffered.
C23_LengthByte ==
    /\ (state = "R_DATA" /\ file_handle = "wb" /\ rx_buf = <<>>) =>
           \A n \in {0, 1, 2, 255} :
               LET len == IF n = 0 THEN 256 ELSE n
                   pkt == <<STX, n>> \o Block(len)
                   short == process_data(Self, SubSeq(pkt, 1, Len(pkt) - 1), "ok")
                   full == process_data(Self, pkt \o <<STX>>, "ok")
               IN  /\ short.rx_buf = SubSeq(pkt, 1, Len(pkt) - 1)
                   /\ short.written = written
                   /\ short.bytes_transferred = bytes_transferred
                   /\ short.file_pos = file_pos
                   /\ full.rx_buf = <<STX>>
                   /\ full.written = written \o Block(len)
                   /\ full.file_pos = file_pos + len
                   /\ full.bytes_transferred = bytes_transferred + len
                   /\ full.state = "R_DATA"
                   /\ full.sent = <<>>
    /\ (state = "R_DATA" /\ Len(rx_buf) >= 2 /\ rx_buf[1] = STX /\ rx_buf[2] = 0) =>
           (Len(rx_buf) < 258 /\ written = <<>> /\ bytes_transferred = 0)
    /\ (state = "DONE" /\ filename = <<65>>) =>
           (written = Block(256) /\ bytes_transferred = 256 /\ rx_buf = <<>>)

\* The file sent in one Data packet with length byte 0 has been received:
\* 256 bytes written, all bytes consumed.
C23_Witness ==
    /\ state = "DONE"
    /\ filename = <<65>>
    /\ file_size = 256
    /\ Len(written) = 256
    /\ bytes_transferred = 256
    /\ rx_buf = <<>>
    /\ wire = <<>>


\* C24: start_send in IDLE on a path that does not exist or cannot be opened
\* returns (False, message) and leaves the engine in IDLE, no file open, no
\* deadline armed, nothing sent; and a step leaves IDLE only by a start call
\* that returned True, into S_INIT or R_WAIT.
C24_StartFailure ==
    /\ [](state = "IDLE" =>
              \A filepath \in {"d/missing", "d/locked"} :
                  LET r == start_send(Self, filepath)
                  IN  /\ ~r.ok
                      /\ r.message # <<>>
                      /\ r.h.state = "IDLE"
                      /\ r.h.file_handle = "none"
                      /\ r.h.timer = "none"
                      /\ r.h.sent = <<>>)
    /\ [][(state = "IDLE" /\ state' # "IDLE") =>
              (/\ ret' # <<>>
               /\ ret'[1] = TRUE
               /\ state' \in {"S_INIT", "R_WAIT"})]_vars

\* start_send on the file that cannot be opened has just failed.
C24_Witness ==
    /\ ret = <<FALSE, <<"Error: ", "PermissionError">>>>
    /\ state = "IDLE"
    /\ file_handle = "none"
    /\ timer = "none"
    /\ sent = <<>>


\* C25: the calls of the engine made by different threads (process_data,
\* cancel, the start calls, the timer's _on_timeout) exclude each other: at
\* most one thread is inside a call, it holds the lock, and while it is inside
\* the engine is as it found it (but for its own rx_buf.extend); and when it
\* leaves, the engine is what the whole call, applied at once to the engine it
\* found on entering, makes of it.  (The Timer object the engine holds may
\* expire meanwhile: that is no step of the engine.)
C25_Exclusive ==
    /\ [](/\ Cardinality({t \in Threads : threads[t].pc # "out"}) <= 1
          /\ \A t \in Threads :
                 /\ threads[t].pc # "out" => lock = t
                 /\ threads[t].pc = "in" => Self = [threads[t].seen EXCEPT !.timer = timer]
                 /\ threads[t].pc = "mid" =>
                        Self = [threads[t].seen EXCEPT
                                   !.timer = timer,
                                   !.rx_buf = IF state = "IDLE" THEN @ ELSE @ \o threads[t].arg])
    /\ [][\A t \in Threads :
              (threads[t].pc # "out" /\ threads'[t].pc = "out") =>
                  LET r == CallResult(threads[t].op, threads[t].arg,
                                      [threads[t].seen EXCEPT !.timer = timer])
                  IN  /\ Apply(r.h)
                      /\ ret' = r.ret]_vars

\* The timer's thread is inside _on_timeout while the GUI thread is outside,
\* and the other way round: the GUI thread is past rx_buf.extend of a
\* process_data call while an expired timer waits for the lock.
C25_Witness ==
    /\ threads["gui"].pc = "mid"
    /\ threads["timer"].pc = "out"
    /\ pending > 0
    /\ lock = "gui"
    /\ state = "S_HEADER"
    /\ rx_buf = PktRF


\* The acknowledgements of the sender's transition table
SenderAcks == {PktRR, PktRF, PktRT, PktAF, PktAT}

C27_ReceiverOrder ==
    /\ []((state = "R_WAIT" /\ rx_buf = <<>>) =>
              \A pkt \in {<<SOH, 4, 65, 0, 51, 0>>, PktET} :
                  LET h == process_data(Self, pkt, "ok")
                  IN  /\ h.file_handle = "none"
                      /\ \A i \in 1..Len(h.sent) : h.sent[i] \notin {PktRF, PktAT}
                      /\ h.state \notin {"R_DATA", "DONE"})
    /\ [][/\ (state' = "R_DATA" /\ state # "R_DATA") => (state = "R_HEADER")
          /\ (state = "R_WAIT" /\ state' = "R_HEADER") => (sent' = <<PktRR>>)]_vars


\* Resume requests: offset 5, offset empty, and the bare marker
ResumeRequests == { <<NAK, 4, 82, 0, 53, 0>>, <<NAK, 3, 82, 0, 0>>, <<NAK, 1, 82>> }

\* C28: a Resume request handled in S_HEADER sets the file position and
\* bytes_transferred to 0, resends the Header and nothing else, stays in
\* S_HEADER with the deadline armed and reports nothing; the ReceiveFile that
\* follows is answered with Data packets for the whole file from byte 0 and
\* Eof.  In a whole session with a Resume the engine has sent SendInit, the
\* Header twice, the whole file, Eof and Eot.
C28_ResumeRestarts ==
    /\ (state = "S_HEADER" /\ rx_buf = <<>>) =>
           \A pkt \in ResumeRequests :
               LET h == process_data(Self, pkt, "ok")
                   g == process_data([h EXCEPT !.sent = <<>>], PktRF, "ok")
               IN  /\ h.state = "S_HEADER"
                   /\ h.rx_buf = <<>>
                   /\ h.file_pos = 0
                   /\ h.bytes_transferred = 0
                   /\ h.sent = <<ExpectedHeader(file_path)>>
                   /\ h.timer = "armed"
                   /\ h.finished = finished
                   /\ g.sent = ExpectedData(FileData(file_path)) \o <<PktEF>>
                   /\ g.bytes_transferred = file_size
                   /\ g.state = "S_EOF"
    /\ (state = "DONE" /\ \E i \in 1..Len(fed) : fed[i] = NAK) =>
           /\ trace = <<PktSI, ExpectedHeader(file_path), ExpectedHeader(file_path)>>
                          \o ExpectedData(FileData(file_path)) \o <<PktEF, PktET>>
           /\ bytes_transferred = file_size

\* A send of d/big.bin in which the peer asked to resume has completed: the
\* Header went out twice and both Data packets after it.
C28_Witness ==
    /\ state = "DONE"
    /\ \E i \in 1..Len(fed) : fed[i] = NAK
    /\ file_path = "d/big.bin"
    /\ Len(trace) = 7
    /\ bytes_transferred = 251


\* C29: when a Cancel packet at the head of the bytes given to process_data
\* ends the session, the bytes behind it are discarded: the call sends only
\* the CancelAck, reports once, and leaves the buffer empty, and a later
\* process_data call (with no new byte, or with one) does nothing.
C29_DiscardAfterCancel ==
    (state \in ActiveStates /\ rx_buf = <<>>) =>
        \A tail \in {<<CAN, 1, 67>>, PktRR, <<SOH, 4, 65, 0, 51, 0>>} :
            LET h == process_data(Self, <<CAN, 1, 66>> \o tail, "ok")
                later == [h EXCEPT !.sent = <<>>]
            IN  /\ h.state = "ERROR"
                /\ h.sent = <<PktCA>>
                /\ h.finished = Append(finished,
                       FinishedCall(FALSE, <<"Cancelled by remote: ", <<66>>>>))
                /\ h.rx_buf = <<>>
                /\ \A more \in {<<>>, <<65>>} :
                       LET g == process_data(later, more, "ok")
                       IN  /\ g.state = "ERROR"
                           /\ g.sent = <<>>
                           /\ g.finished = h.finished


\* Length-prefixed packets cut short of their declared length, each with the
\* states in which its kind is expected
IncompleteCases ==
    { <<ActiveStates, <<CAN, 3, 66>> >>,
      <<{"S_INIT", "S_HEADER", "S_EOF", "S_EOT"}, <<NAK, 3, 78>> >>,
      <<{"S_INIT", "S_HEADER", "S_EOF", "S_EOT"}, <<NAK, 4, 82, 0>> >>,
      <<{"R_WAIT", "R_HEADER"}, <<SOH, 4, 65, 0>> >>,
      <<{"R_DATA"}, <<STX, 3, 120>> >>,
      <<{"R_DATA"}, <<STX, 0, 120, 121>> >>,
      <<ActiveStates, <<DLE, 3, 72>> >> }

\* C30: when the buffer starts with a Cancel, NotReady/Resume, Header, Data
\* or Text packet whose declared payload is not all buffered yet, process_data
\* consumes no byte, sends nothing, calls no callback and leaves the state and
\* the file as they are.
C30_NeedMoreData ==
    rx_buf = <<>> =>
        \A c \in IncompleteCases :
            state \in c[1] =>
                LET h == process_data(Self, c[2], "ok")
                IN  /\ h.rx_buf = c[2]
                    /\ h.sent = <<>>
                    /\ h.events = <<>>
                    /\ h.finished = finished
                    /\ h.state = state
                    /\ h.file_handle = file_handle
                    /\ h.bytes_transferred = bytes_transferred

\* The states in which a leading byte may be skipped
SkippingStates == {"S_INIT", "S_HEADER", "S_EOF", "S_EOT", "R_WAIT", "R_HEADER", "R_DATA"}

\* Whether two leading bytes begin a packet that the handler of state st
\* takes: Cancel anywhere, the ACK and NAK classes while sending, SendInit,
\* Header and Eot while awaiting a file, Data, Eof and Eot while receiving one
Recognized(st, first, second) ==
    \/ first = CAN
    \/ st \in {"S_INIT", "S_HEADER", "S_EOF", "S_EOT"} /\ first \in {ACK, NAK}
    \/ st \in {"R_WAIT", "R_HEADER"}
          /\ (first = SOH \/ (first \in {ENQ, EOT} /\ second = 1))
    \/ st = "R_DATA" /\ (first = STX \/ (first \in {ETX, EOT} /\ second = 1))

\* The length of the packet two leading bytes begin
PacketLen(first, second) ==
    CASE first \in {ACK, ENQ, ETX, EOT} -> 2
      [] first = STX -> 2 + (IF second # 0 THEN second ELSE 256)
      [] OTHER -> 2 + second

\* One turn of the decode loop on a buffer of two bytes or more, in a state
\* of SkippingStates: the handler and whether the loop goes on
Dispatch(h, io) ==
    LET first == h.rx_buf[1]
        second == h.rx_buf[2]
    IN  CASE first = CAN -> [h |-> _process_buffer_cancel(h, second), consumed |-> FALSE]
          [] first # CAN /\ h.state \in {"S_INIT", "S_HEADER", "S_EOF", "S_EOT"} ->
                 _process_sender_response(h, first, second, io)
          [] first # CAN /\ h.state \in {"R_WAIT", "R_HEADER"} ->
                 _process_receiver_control(h, first, second, io)
          [] first # CAN /\ h.state = "R_DATA" ->
                 _process_receiver_data(h, first, second, io)

\* Buffers that begin with a stray byte, a packet of another state, a packet
\* of an unknown subtype, a whole packet or part of one
SkipBuffers ==
    { <<65, 66>>, <<0, 0>>, <<65, 66, 67>>, <<200, CAN, 0>>,
      <<DLE, 1, 72>>, <<ENQ, 2>>, <<ENQ, 1>>, <<ETX, 1>>, <<ETX, 0>>, <<EOT, 1>>,
      <<EOT, 7>>, <<STX, 1, 120>>, <<STX, 2, 120>>, <<SOH, 4, 65, 0, 51, 0>>,
      <<SOH, 4, 65>>, <<ACK, 1>>, <<ACK, 2>>, <<ACK, 3>>, <<ACK, 9>>,
      <<ACK, NAK, 1, 78>>, <<NAK, 1, 78>>, <<NAK, 3, 78>>, <<CAN, 0>>, <<CAN, 2, 1>>,
      <<65, NAK, 1, 78>>, <<65, ACK, 1>>, <<65, ENQ, 1, SOH, 4, 65, 0, 51, 0>>,
      <<65, STX, 1, 120, ETX, 1>>, <<ACK, 1, 65, ACK, 3>>, <<ETX, 1, EOT, 1>> }

\* C31: in S_INIT, S_HEADER, S_EOF, S_EOT, R_WAIT, R_HEADER and R_DATA, a
\* process_data call on an empty buffer whose bytes begin with a byte that
\* begins no packet the state's handler takes removes exactly that byte,
\* sends nothing, ends nothing and keeps the state, and goes on decoding as
\* if the call had begun at the next byte; when the bytes begin with a packet
\* the handler takes, nothing is removed while the packet is incomplete and
\* exactly the packet's bytes are removed once it is whole.  What is left
\* is always the bytes that followed what was removed.
C31_OneByteSkip ==
    (state \in SkippingStates /\ rx_buf = <<>>) =>
        \A buf \in SkipBuffers :
            LET h == [Self EXCEPT !.rx_buf = buf,
                                  !.fed = IF recording THEN @ \o buf ELSE @]
                r == Dispatch(h, "ok")
                n == PacketLen(buf[1], buf[2])
            IN  /\ process_data(Self, buf, "ok")
                       = IF r.consumed THEN _process_buffer(r.h, "ok") ELSE r.h
                /\ IF ~Recognized(state, buf[1], buf[2])
                   THEN /\ r.consumed
                        /\ r.h.rx_buf = Drop(buf, 1)
                        /\ r.h.state = state
                        /\ r.h.sent = <<>>
                        /\ r.h.finished = finished
                        /\ r.h.file_handle = file_handle
                        /\ r.h.bytes_transferred = bytes_transferred
                   ELSE IF Len(buf) < n
                   THEN ~r.consumed /\ r.h.rx_buf = buf /\ r.h.state = state
                   ELSE r.h.rx_buf = Drop(buf, n)

\* C31 happens: in a waiting state of the receiver, with the buffer empty, a
\* stray byte followed by a SendInit leaves the engine where the SendInit
\* alone would
C31_Witness ==
    /\ state = "R_WAIT"
    /\ rx_buf = <<>>
    /\ process_data(Self, <<65, ENQ, 1>>, "ok").state = "R_HEADER"
    /\ process_data(Self, <<65, ENQ, 1>>, "ok").rx_buf = <<>>
    /\ process_data(Self, <<65, 66>>, "ok").rx_buf = <<66>>
    /\ process_data(Self, <<65, 66>>, "ok").state = "R_WAIT"

\* C32: every process_data call returns.  Each iteration of the decode loop
\* either shortens the buffer by at least one byte or is the last one, each
\* iteration of the data loop either moves the file position forward or is
\* the last one, the engine the call leaves is the one the whole call
\* computes from the engine it found, and a thread that is inside the call
\* is eventually outside it with the lock free.
C32_Terminates ==
    /\ [][ /\ (threads["gui"].pc = "loop")
                  => (Len(rx_buf') < Len(rx_buf) \/ threads'["gui"].pc = "out")
           /\ (threads["gui"].pc = "data")
                  => (file_pos' > file_pos \/ threads'["gui"].pc # "data")
           /\ (threads["gui"].pc # "out" /\ threads'["gui"].pc = "out")
                  => LET th == threads["gui"]
                         h == process_data(th.seen, th.arg[1], th.arg[2])
                     IN  /\ Self' = [h EXCEPT !.sent = <<>>, !.events = <<>>,
                                              !.raised = FALSE]
                         /\ sent' = h.sent
                         /\ lock' = "free" ]_vars
    /\ (threads["gui"].pc # "out") ~> (threads["gui"].pc = "out" /\ lock = "free")

\* C32 happens: a call that was given four stray bytes returned from a
\* waiting state having discarded three of them; and a call that was given
\* ReceiveFile sent the two Data packets of a file and the Eof, and returned
C32_Witness ==
    /\ threads["gui"].pc = "out"
    /\ lock = "free"
    /\ \/ state = "R_WAIT" /\ rx_buf = <<68>>
       \/ /\ state = "S_EOF"
          /\ file_path = "d/big.bin"
          /\ Len(sent) = 3
          /\ sent[3] = PktEF

\* C33: a stale deadline has no effect.  When the callback of an expired
\* Timer runs although the deadline it belonged to is no longer the current
\* one (process_data has meanwhile cancelled or re-armed it) and the session
\* is still under way, the callback sends nothing, does not end the session
\* and does not repeat SendInit.
C33_StaleNoEffect ==
    [][ (/\ pending > 0
         /\ pending' < pending
         /\ timer # "fired"
         /\ state \in ActiveStates)
            => (/\ sent' = <<>>
                /\ state' = state
                /\ finished' = finished
                /\ si_retries' = si_retries) ]_vars

\* C34: with on_finished being the application's handler that calls
\* reset_to_idle() on the same engine, an operation that has ended the
\* session (its thread is inside on_finished) returns, with the lock
\* released and the engine in IDLE.
C34_CallbackReturns ==
    \A t \in Threads :
        (threads[t].pc = "cb") ~> (threads[t].pc = "out" /\ lock = "free" /\ state = "IDLE")

\* C35: no session stays active forever once the peer is silent.  From every
\* state in which a session is under way and no byte of the peer is in
\* flight any more, with armed deadlines expiring and their callbacks
\* running, the session reaches DONE or ERROR.
C35_SilentPeerEnds ==
    (state \in ActiveStates /\ wire = <<>>) ~> (state \in {"DONE", "ERROR"})

\* C36: a sending and a receiving engine joined by two lossless,
\* order-preserving byte channels, whatever the chunking, with the receiver
\* started before SendInit is delivered to it: once a send is under way both
\* engines reach DONE, the receiver's file then holds the bytes of the
\* sender's file in order, and both report the same bytes_transferred.
C36_EndToEnd ==
    (state = "S_INIT")
        ~> (/\ state = "DONE"
            /\ peer.h.state = "DONE"
            /\ peer.h.written = FileData(file_path)
            /\ peer.h.bytes_transferred = bytes_transferred
            /\ bytes_transferred = GetSize(file_path)
            /\ wire = <<>>
            /\ peer.inbox = <<>>)

\* C36 happens: a file of two Data packets has gone across
C36_Witness ==
    /\ state = "DONE"
    /\ peer.h.state = "DONE"
    /\ file_path = "d/big.bin"
    /\ peer.h.written = FileData("d/big.bin")
    /\ peer.h.bytes_transferred = MAX_DATA_LEN + 1
    /\ bytes_transferred = MAX_DATA_LEN + 1

\* C37: whenever no operation is executing, a file handle is open only in
\* S_INIT, S_HEADER or R_DATA, and in R_DATA a file handle is always open; in
\* IDLE, S_EOF, S_EOT, R_WAIT, R_HEADER, DONE and ERROR none is open.
C37_FileOwnership ==
    /\ file_handle # "none" => state \in {"S_INIT", "S_HEADER", "R_DATA"}
    /\ state = "R_DATA" => file_handle # "none"

\* The packets a step hands to send_raw: `sent` grows inside a call and
\* starts again with every call.
NewPackets ==
    IF Len(sent') >= Len(sent) /\ SubSeq(sent', 1, Len(sent)) = sent
    THEN SubSeq(sent', Len(sent) + 1, Len(sent'))
    ELSE sent'

IsDataPacket(pkt) == pkt # <<>> /\ pkt[1] = STX

\* The payloads of the Data packets among pkts, concatenated
DataPayload(pkts) ==
    LET data == SelectSeq(pkts, IsDataPacket)
    IN  Flatten([i \in 1..Len(data) |-> Drop(data[i], 2)])

\* C38: every Data packet the sender emits carries 1..MAX_DATA_LEN payload
\* bytes and a length byte equal to the payload length (never 0), its payload
\* is the file's contents at the file position, and bytes_transferred grows by
\* the payload length; Data packets are emitted only in S_DATA, Eof only on
\* leaving S_DATA with the whole file read, so every Data packet precedes the
\* Eof and the payloads between entering S_DATA and the Eof, concatenated,
\* are the file's contents in order.
C38_DataPackets ==
    /\ [][ /\ \A i \in 1..Len(NewPackets) :
                  IsDataPacket(NewPackets[i]) =>
                      LET pkt == NewPackets[i]
                          payload == Drop(pkt, 2)
                      IN  /\ Len(NewPackets) = 1
                          /\ Len(payload) \in 1..MAX_DATA_LEN
                          /\ pkt[2] = Len(payload)
                          /\ pkt[2] # 0
                          /\ state = "S_DATA" /\ state' = "S_DATA"
                          /\ payload = SubSeq(FileData(file_path), file_pos + 1,
                                              file_pos + Len(payload))
                          /\ file_pos' = file_pos + Len(payload)
                          /\ bytes_transferred' = bytes_transferred + Len(payload)
           /\ (\E i \in 1..Len(NewPackets) : NewPackets[i] = PktEF) =>
                  /\ state = "S_DATA" /\ state' = "S_EOF"
                  /\ NewPackets = <<PktEF>>
                  /\ file_pos = GetSize(file_path)
                  /\ DataPayload(sent') = FileData(file_path)
                  /\ bytes_transferred' = GetSize(file_path) ]_vars
    /\ [](state = "S_DATA" => DataPayload(sent) = SubSeq(FileData(file_path), 1, file_pos))

C38_Witness ==
    /\ state = "S_EOF"
    /\ threads["gui"].pc # "out"
    /\ file_path = "d/big.bin"
    /\ Len(SelectSeq(sent, IsDataPacket)) = 2
    /\ sent[Len(sent)] = PktEF

\* Whether a leading byte begins, in state st, a packet whose second byte is
\* its length: Cancel anywhere, NotReady/Resume while sending, Header while
\* awaiting a file, Data while receiving one, Text in S_DATA
LengthPrefixed(st, first) ==
    \/ first = CAN
    \/ st \in {"S_INIT", "S_HEADER", "S_EOF", "S_EOT"} /\ first = NAK
    \/ st \in {"R_WAIT", "R_HEADER"} /\ first = SOH
    \/ st = "R_DATA" /\ first = STX
    \/ st = "S_DATA" /\ first = DLE

\* The buffer holds fewer than 2 bytes, or the beginning and not the whole of
\* one length-prefixed packet of the state
AtRest(h) ==
    \/ Len(h.rx_buf) < 2
    \/ /\ LengthPrefixed(h.state, h.rx_buf[1])
       /\ Len(h.rx_buf) < PacketLen(h.rx_buf[1], h.rx_buf[2])
       /\ Len(h.rx_buf) <= 2 + 256 - 1

\* C39: after a process_data call that returns with the session still active
\* the buffer holds fewer than 2 bytes or a strict prefix of one
\* length-prefixed packet; between operations no complete packet and no
\* unrecognized leading byte waits in the buffer of an active session.
C39_BufferAtRest ==
    /\ state \in ActiveStates => AtRest(Self)
    /\ \A buf \in SkipBuffers, io \in {"ok", "fail"} :
           LET h == process_data(Self, buf, io)
           IN  (~h.raised /\ h.state \in ActiveStates) => AtRest(h)

\* C39 happens: a receiver in R_DATA with part of a Data packet waiting is
\* given a stray byte, an Eof and the beginning of a Header after the rest of
\* the packet, and keeps only the beginning of the Header
C39_Witness ==
    /\ state = "R_DATA"
    /\ rx_buf = <<STX, 3, 120>>
    /\ process_data(Self, <<121, 122, 65, ETX, 1, SOH, 4, 65>>, "ok").rx_buf = <<SOH, 4, 65>>
    /\ process_data(Self, <<121, 122, 65, ETX, 1, SOH, 4, 65>>, "ok").state = "R_HEADER"
    /\ process_data(Self, <<STX, 2, 120>>, "ok").state = "R_DATA"

\* Whether process_data's decode loop, run on the buffer of h, comes to an
\* iteration that dispatches to the handler of S_DATA
RECURSIVE DataBranchTaken(_, _)
DataBranchTaken(h, io) ==
    IF h.raised \/ Len(h.rx_buf) < 2 \/ h.rx_buf[1] = CAN THEN FALSE
    ELSE IF h.state \in {"IDLE", "DONE", "ERROR", "CW_WAIT"} THEN FALSE
    ELSE IF h.state = "S_DATA" THEN TRUE
    ELSE \E r \in {Turn(h, io)} : r.again /\ DataBranchTaken(r.h, io)

\* What process_data is given after ReceiveFile or ReceiveTpk in the same call
DataBranchInputs ==
    { PktRF \o <<65, 66>>, PktRT \o <<DLE, 1, 72>>, PktRR \o PktRF \o PktAF }

\* C40: when no storage or transport call raises, S_DATA and CW_WAIT are never
\* the state between operations: the call that handles ReceiveFile or
\* ReceiveTpk enters S_DATA and leaves it for S_EOF before it returns, nothing
\* assigns CW_WAIT, and no process_data call comes to dispatch to the handler
\* of S_DATA, whatever follows in its bytes.
C40_NoDataState ==
    /\ state \notin {"S_DATA", "CW_WAIT"}
    /\ _send_data_loop([Self EXCEPT !.state = "S_DATA"], "ok").state = "S_EOF"
    /\ \A buf \in DataBranchInputs :
           ~DataBranchTaken([Self EXCEPT !.rx_buf = @ \o buf], "ok")

\* C40 happens: the call that was given ReceiveFile has sent the file's Data
\* and the Eof and returned in S_EOF
C40_Witness ==
    /\ state = "S_EOF"
    /\ Len(sent) >= 2
    /\ IsDataPacket(sent[1])
    /\ sent[Len(sent)] = PktEF
    /\ file_handle = "none"

====
